---------------------------- MODULE Spec2Model ----------------------------
(***************************************************************************)
(* Droplet assay analysis: the parallel frame scheduler of                 *)
(* image_processing.process_images (worker pool, cooperative stop flag,    *)
(* frame-indexed assembly, inactivity classifier), the signal stage        *)
(* (signal_processing.SignalProcessor, analysis.analyze_turns), direct     *)
(* calls of detect_peaks, moving_average and analyze_turns, the batch      *)
(* item that starts from auto_roi_detection.detect_circles_in_image, and   *)
(* the loop of run_batch_analysis over the directories of a batch.         *)
(*                                                                         *)
(* Numbers.  Eccentricities are integers in thousandths (0.015 is 15),     *)
(* areas and pixel coordinates are integers, and np.nan is the value NaN.  *)
(* Matrices are functions indexed from 0, as the numpy arrays are.         *)
(* The signal stage computes on floats: a float is a fraction <<n, d>> in  *)
(* lowest terms, with <<0, 0>> for nan and <<1, 0>>, <<-1, 0>> for the     *)
(* infinities, so that means, medians and rates are exact.                 *)
(***************************************************************************)
EXTENDS Integers, Sequences, FiniteSets, TLC

VARIABLES
    caller,           \* which caller built roi_coords / ignore_worm
    frames,           \* what each image file yields when it is processed
    roi_coords,       \* analyzer.roi_coords
    ignore_worm,      \* analyzer.ignore_worm
    workers,          \* size of the ProcessPoolExecutor
    pc,               \* position of process_images
    stop_processing,  \* analyzer.stop_processing
    task,             \* state of each submitted future in the pool
    finished,         \* as_completed: futures already done when it was called
    waiter,           \* as_completed: futures done since, in completion order
    yielded,          \* futures as_completed has handed to the loop, in order
    results,          \* the local list results
    writes,           \* number of assignments made to each slot of results
    progress,         \* progress_bar["value"]
    ret,              \* the value process_images returned
    axes,             \* analyzer.bw_MajorAxis, analyzer.bw_MinorAxis
    assembled,        \* the matrices after assembly, before the classifier
    computed_ignore_worm,  \* the classifier's flags, None when it did not run
    bw_Area,          \* analyzer.bw_Area, [numroi, numframes]
    bw_Centroid,      \* analyzer.bw_Centroid, [numroi, numframes, 2]
    bw_Eccentricity,  \* analyzer.bw_Eccentricity, [numroi, numframes]
    params,           \* analyzer.params
    valid_turns,      \* process_signals: valid turn series of each ROI
    invalid_data,     \* process_signals: invalid-frame mask of each ROI
    bw_Eccentricity_filtered,  \* process_signals: smoothed eccentricity
    bw_Area_filtered,          \* process_signals: smoothed area
    bw_Centroid_r_filtered,    \* process_signals: smoothed centroid radius
    droplet_radius,   \* process_signals: radius of each ROI
    groups,           \* the grouping analyze_turns obtained from get_grouping
    analysis,         \* what analyze_turns returned
    call,             \* a direct call of one function: its name and arguments
    result,           \* what the direct call returned or raised
    detector,         \* detect_peaks: its locals while it loops over the samples
    all_dirs,         \* run_batch_analysis: the directories to process
    dir_index,        \* run_batch_analysis: i, the number of the current directory
    directory,        \* analyzer.directory
    failures,         \* run_batch_analysis: (directory, error text) pairs
    var,              \* run_batch_analysis: the value of the progress bar
    summary,          \* run_batch_analysis: the message box shown at the end
    started,          \* history: the directories handed to process_single_batch_item
    raised            \* history: the directories whose processing raised

image_vars == <<frames, ignore_worm, workers, task, finished, waiter, yielded,
                results, writes, progress, ret, axes, assembled,
                computed_ignore_worm>>

signal_vars == <<bw_Area, bw_Centroid, bw_Eccentricity, params, valid_turns,
                 invalid_data, bw_Eccentricity_filtered, bw_Area_filtered,
                 bw_Centroid_r_filtered, droplet_radius, groups, analysis>>

call_vars == <<call, result, detector>>

batch_vars == <<all_dirs, dir_index, directory, failures, var, summary, started, raised>>

vars == <<caller, roi_coords, pc, stop_processing, image_vars, signal_vars, call_vars,
          batch_vars>>

---------------------------------------------------------------------------
(* Bounds of the model *)

MaxFrames == 2        \* frames of a short image sequence
MaxWorkers == 2       \* worker processes in the pool
MaxBacklog == 2       \* completed futures not yet handed to the loop
LongFrames == 102     \* frames of the long image sequence
NumRoi == 2           \* ROIs of a scheduler run

---------------------------------------------------------------------------
(* Values *)

NaN == -1
None == <<>>
Some(x) == <<x>>

IsNaN(x) == x = NaN

\* No batch is running
BatchIdle ==
    /\ all_dirs = <<>>
    /\ dir_index = 0
    /\ directory = None
    /\ failures = <<>>
    /\ var = 0
    /\ summary = None
    /\ started = <<>>
    /\ raised = {}

\* No direct call is in progress
NoCall == [fn |-> "none", args |-> <<>>]

\* (np.nan, (np.nan, np.nan), np.nan, None)
NaNTuple == [area |-> NaN, centroid |-> <<NaN, NaN>>, ecc |-> NaN, ellipse |-> None]

\* Truth value of an ignore flag (False, True, 0 or 1) in "if ignore"
Truthy(flag) == flag \in {"True", "1"}

\* "flag is False": identity with the bool False, which the int 0 is not
IsFalse(flag) == flag = "False"

Rois(rc) == 0 .. (Len(rc) - 1)
Frames(fs) == 0 .. (Len(fs) - 1)

\* Python lists are indexed from 0
At(list, i) == list[i + 1]

---------------------------------------------------------------------------
(* Inputs: the image sequence, the ROIs and their ignore flags *)

\* An ROI rectangle ((x1, y1), (x2, y2))
Rect(k) == <<<<50 * k, 0>>, <<50 * k + 40, 40>>>>

\* What regionprops measures in the crop of ROI k of a frame that shows a
\* blob: area, centroid (row, col), eccentricity, and the ellipse axes,
\* which are absent when an axis length is 0.
Blob(area, ecc, withAxes) ==
    [area |-> area, centroid |-> <<area + 1, area + 2>>, ecc |-> ecc,
     ellipse |-> IF withAxes THEN <<area + 3, area + 4>> ELSE None]

\* A frame of the sequence: the file is unreadable ("raise"), shows no blob
\* in any ROI ("nan"), or shows a blob in every ROI ("blob"); in a "still"
\* sequence the worm of ROI 0 never changes shape.
FrameKinds == {"raise", "nan", "blob"}

\* What frame j shows in the crop of ROI k
Shows(frame, j, k) ==
    IF frame.kind # "blob" THEN NaNTuple
    ELSE IF frame.still
         THEN Blob(10 * (j + 1) + k,
                   IF k = 0 THEN 500 ELSE 300 + 100 * ((j + k) % 2), TRUE)
         ELSE Blob(10 * (j + 1) + k, 100 * (j + 1) + 20 * k, (j + k) % 2 = 0)

ShortSequences ==
    UNION { { [j \in 1 .. n |-> [kind |-> kinds[j], still |-> FALSE]] :
              kinds \in [1 .. n -> FrameKinds] } : n \in 1 .. MaxFrames }

\* The long sequence, every file readable or exactly one file unreadable
LongSequences ==
    { [j \in 1 .. LongFrames |->
         [kind |-> IF j - 1 = bad THEN "raise" ELSE "blob", still |-> TRUE]] :
      bad \in {-1, 0, LongFrames \div 2} }

\* The ROIs and flags each caller hands to process_images.
\* process_single_batch_item: every circle an ROI, every flag False.
\* auto_roi and ROISelector: flags 0 and 1, the ROI of a flagged worm None.
IgnoredSets == {{}, {0}, {NumRoi - 1}, 0 .. (NumRoi - 1)}

BatchRois == [k \in 1 .. NumRoi |-> Rect(k - 1)]
BatchFlags == [k \in 1 .. NumRoi |-> "False"]
UserRois(ignored) == [k \in 1 .. NumRoi |-> IF (k - 1) \in ignored THEN None ELSE Rect(k - 1)]
UserFlags(ignored) == [k \in 1 .. NumRoi |-> IF (k - 1) \in ignored THEN "1" ELSE "0"]

---------------------------------------------------------------------------
(* process_frame *)

\* Mutant: every ROI is measured
FrameResultOfEveryRoi(frame, j, rc, iw) ==
    [k \in Rois(rc) |-> Shows(frame, j, k)]

\* The per-ROI loop of process_frame: the NaN tuple for an ignored or absent
\* ROI, else what the frame shows in the crop.
FrameResult(frame, j, rc, iw) ==
    [k \in Rois(rc) |->
        IF Truthy(At(iw, k)) \/ At(rc, k) = None THEN NaNTuple ELSE Shows(frame, j, k)]

\* The future of the task of frame j: an exception (io.imread fails), or
\* (index, frame_result).
process_frame(j, fs, rc, iw) ==
    IF At(fs, j).kind = "raise"
    THEN [exc |-> TRUE, index |-> j, frame_result |-> None]
    ELSE [exc |-> FALSE, index |-> j, frame_result |-> FrameResult(At(fs, j), j, rc, iw)]

---------------------------------------------------------------------------
(* process_images: collection, assembly, inactivity classifier *)

EccThreshold == 15     \* ecc_threshold = 0.015
InactiveRun == 100     \* consecutive >= 100

\* Line 185: return None, None, None
AbortedOutcome == <<None, None, None>>

\* Line 199: return None, None, None
PoolErrorOutcome == <<None, None, None>>

\* Mutant: results.append(frame_result), slots filled in completion order
StoreResultInCompletionOrder(res, j, frame_result) ==
    [res EXCEPT ![Cardinality({i \in DOMAIN res : res[i] # None})] = Some(frame_result)]

\* Mutant: the slot after the frame's own
StoreResultNextSlot(res, j, frame_result) ==
    [res EXCEPT ![(j + 1) % Cardinality(DOMAIN res)] = Some(frame_result)]

\* results[j] = frame_result
StoreResult(res, j, frame_result) == [res EXCEPT ![j] = Some(frame_result)]

\* Mutant: a failed frame reported as zeros
ExceptionResultZero(rc) ==
    [k \in Rois(rc) |-> [area |-> 0, centroid |-> <<0, 0>>, ecc |-> 0, ellipse |-> None]]

\* [(np.nan, (np.nan, np.nan), np.nan, None)] * numroi
ExceptionResult(rc) == [k \in Rois(rc) |-> NaNTuple]

\* try: index, frame_result = future.result()  except Exception: ...
FutureResult(future, rc) ==
    IF future.exc THEN ExceptionResult(rc) ELSE future.frame_result

\* The major and minor axis lengths stored for an ellipse_params value
MajorOf(ellipse) == IF ellipse # None THEN ellipse[1] ELSE NaN
MinorOf(ellipse) == IF ellipse # None THEN ellipse[2] ELSE NaN

\* The assembly loop over j and k: entry [k][j] of each matrix
Assemble(res, rc) ==
    LET cell(k, j) == IF res[j] = None THEN NaNTuple ELSE res[j][1][k]
    IN  [area     |-> [k \in Rois(rc) |-> [j \in DOMAIN res |-> cell(k, j).area]],
         centroid |-> [k \in Rois(rc) |-> [j \in DOMAIN res |-> cell(k, j).centroid]],
         ecc      |-> [k \in Rois(rc) |-> [j \in DOMAIN res |-> cell(k, j).ecc]],
         major    |-> [k \in Rois(rc) |-> [j \in DOMAIN res |->
                          IF res[j] = None THEN NaN ELSE MajorOf(cell(k, j).ellipse)]],
         minor    |-> [k \in Rois(rc) |-> [j \in DOMAIN res |->
                          IF res[j] = None THEN NaN ELSE MinorOf(cell(k, j).ellipse)]]]

\* isinstance(ignore_worm, list) and all(flag is False for flag in ignore_worm)
RunsClassifier(iw) == \A k \in 1 .. Len(iw) : IsFalse(iw[k])

\* not_changing[i]: np.abs(np.diff(ecc_vals))[i] < ecc_threshold, False when
\* either sample is NaN
NotChanging(ecc_vals, i) ==
    /\ ~IsNaN(ecc_vals[i]) /\ ~IsNaN(ecc_vals[i + 1])
    /\ (IF ecc_vals[i + 1] >= ecc_vals[i] THEN ecc_vals[i + 1] - ecc_vals[i]
                                          ELSE ecc_vals[i] - ecc_vals[i + 1]) < EccThreshold

\* Mutant: a run must be longer than InactiveRun
StableStepLongerRun(st, ecc_vals, i) ==
    IF st.ignore_flag THEN st
    ELSE IF NotChanging(ecc_vals, i)
         THEN [consecutive |-> st.consecutive + 1,
               ignore_flag |-> st.consecutive + 1 > InactiveRun]
         ELSE [consecutive |-> 0, ignore_flag |-> FALSE]

\* One pass of the body of "for change in not_changing" at position i; the
\* loop state is (consecutive, ignore_flag) and break leaves it unchanged
StableStep(st, ecc_vals, i) ==
    IF st.ignore_flag THEN st
    ELSE IF NotChanging(ecc_vals, i)
         THEN [consecutive |-> st.consecutive + 1,
               ignore_flag |-> st.consecutive + 1 >= InactiveRun]
         ELSE [consecutive |-> 0, ignore_flag |-> FALSE]

\* The passes at positions lo .. hi in increasing order
RECURSIVE StableLoop(_, _, _, _)
StableLoop(st, ecc_vals, lo, hi) ==
    IF lo > hi THEN st
    ELSE IF lo = hi THEN StableStep(st, ecc_vals, lo)
    ELSE LET mid == (lo + hi) \div 2
             first == StableLoop(st, ecc_vals, lo, mid)
         IN  IF first.ignore_flag THEN first
             ELSE StableLoop(first, ecc_vals, mid + 1, hi)

\* computed_ignore_worm[k]
Inactive(ecc_vals) ==
    IF \A j \in DOMAIN ecc_vals : IsNaN(ecc_vals[j]) THEN TRUE
    ELSE StableLoop([consecutive |-> 0, ignore_flag |-> FALSE], ecc_vals,
                    0, Cardinality(DOMAIN ecc_vals) - 2).ignore_flag

ComputedIgnoreWorm(M) == [k \in DOMAIN M.ecc |-> Inactive(M.ecc[k])]

\* Mutant: only the eccentricity of an inactive worm is overwritten
SuppressEccOnly(M, flags) ==
    [M EXCEPT !.ecc = [k \in DOMAIN M.ecc |->
                          IF flags[k] THEN [j \in DOMAIN M.ecc[k] |-> NaN] ELSE M.ecc[k]]]

\* bw_X[k, :] = np.nan for every k with ignore_worm[k]
Suppress(M, flags) ==
    LET nanrow(row, k, v) == IF flags[k] THEN [j \in DOMAIN row |-> v] ELSE row
    IN  [area     |-> [k \in DOMAIN M.area |-> nanrow(M.area[k], k, NaN)],
         centroid |-> [k \in DOMAIN M.centroid |-> nanrow(M.centroid[k], k, <<NaN, NaN>>)],
         ecc      |-> [k \in DOMAIN M.ecc |-> nanrow(M.ecc[k], k, NaN)],
         major    |-> [k \in DOMAIN M.major |-> nanrow(M.major[k], k, NaN)],
         minor    |-> [k \in DOMAIN M.minor |-> nanrow(M.minor[k], k, NaN)]]

\* The matrices process_images ends with, from the assembled ones
Classified(M, iw) ==
    IF RunsClassifier(iw) THEN Suppress(M, ComputedIgnoreWorm(M)) ELSE M

---------------------------------------------------------------------------
(* The scheduler as a state machine *)

AllFrames == Frames(frames)
Done == {j \in AllFrames : task[j] = "done"}
Running == {j \in AllFrames : task[j] = "running"}
Queued == {j \in AllFrames : task[j] = "queued"}

\* The call queue is first in, first out: the work item a free worker takes
OldestQueued ==
    IF Queued = {} THEN {}
    ELSE {CHOOSE j \in Queued : \A i \in Queued : j <= i}
Yielded == {yielded[i] : i \in 1 .. Len(yielded)}

\* Futures as_completed can hand over next: those already finished when it
\* was called, in any order, then the others in completion order.
Ready ==
    IF finished \ Yielded # {} THEN finished \ Yielded
    ELSE IF waiter # <<>> THEN {Head(waiter)} ELSE {}

Init ==
    /\ BatchIdle
    /\ \/ /\ frames \in ShortSequences
          /\ workers \in 1 .. MaxWorkers
          /\ \/ /\ caller = "batch"
                /\ roi_coords = BatchRois
                /\ ignore_worm = BatchFlags
             \/ /\ caller = "auto"
                /\ \E ignored \in IgnoredSets :
                      /\ roi_coords = UserRois(ignored)
                      /\ ignore_worm = UserFlags(ignored)
       \/ /\ frames \in LongSequences
          /\ workers = 1
          /\ \/ /\ caller = "batch"
                /\ roi_coords = BatchRois
                /\ ignore_worm = BatchFlags
             \/ /\ caller = "auto"
                /\ \A j \in 1 .. Len(frames) : frames[j].kind = "blob"
                /\ roi_coords = UserRois({})
                /\ ignore_worm = UserFlags({})
    /\ pc = "entry"
    /\ stop_processing = FALSE
    /\ task = [j \in Frames(frames) |-> "none"]
    /\ finished = {}
    /\ waiter = <<>>
    /\ yielded = <<>>
    /\ results = [j \in Frames(frames) |-> None]
    /\ writes = [j \in Frames(frames) |-> 0]
    /\ progress = 0
    /\ ret = None
    /\ axes = None
    /\ assembled = None
    /\ computed_ignore_worm = None
    /\ bw_Area = None
    /\ bw_Centroid = None
    /\ bw_Eccentricity = None
    /\ params = None
    /\ valid_turns = None
    /\ invalid_data = None
    /\ bw_Eccentricity_filtered = None
    /\ bw_Area_filtered = None
    /\ bw_Centroid_r_filtered = None
    /\ droplet_radius = None
    /\ groups = None
    /\ analysis = None
    /\ call = NoCall
    /\ result = None
    /\ detector = None

\* The window's event handlers run inside progress_window.update(): the
\* user may close the progress window or press Cancel (click).
Update(click) == stop_processing' = (stop_processing \/ click)

\* Lines 144-177: progress window, minimum image, result list, pool, submit
Submit(click) ==
    /\ pc = "entry"
    /\ Update(click)
    /\ task' = [j \in AllFrames |-> "queued"]
    /\ pc' = "submitted"
    /\ UNCHANGED <<caller, frames, roi_coords, ignore_worm, workers, finished,
                   waiter, yielded, results, writes, progress, ret, axes,
                   assembled, computed_ignore_worm>>
    /\ UNCHANGED <<signal_vars, call_vars, batch_vars>>

\* Lines 176-177, 196-199: the pool cannot start its workers
PoolFailure(click) ==
    /\ pc = "entry"
    /\ Update(click)
    /\ pc' = "ret199"
    /\ ret' = PoolErrorOutcome
    /\ UNCHANGED <<caller, frames, roi_coords, ignore_worm, workers, task,
                   finished, waiter, yielded, results, writes, progress, axes,
                   assembled, computed_ignore_worm>>
    /\ UNCHANGED <<signal_vars, call_vars, batch_vars>>

\* Line 178: as_completed(futures) is called
AsCompleted ==
    /\ pc = "submitted"
    /\ finished' = Done
    /\ pc' = "collect"
    /\ UNCHANGED <<caller, frames, roi_coords, ignore_worm, workers,
                   stop_processing, task, waiter, yielded, results, writes,
                   progress, ret, axes, assembled, computed_ignore_worm>>
    /\ UNCHANGED <<signal_vars, call_vars, batch_vars>>

\* A worker process takes the oldest queued work item
TaskStart(j) ==
    /\ j \in OldestQueued
    /\ Cardinality(Running) < workers
    /\ task' = [task EXCEPT ![j] = "running"]
    /\ UNCHANGED <<caller, frames, roi_coords, ignore_worm, workers, pc,
                   stop_processing, finished, waiter, yielded, results, writes,
                   progress, ret, axes, assembled, computed_ignore_worm>>
    /\ UNCHANGED <<signal_vars, call_vars, batch_vars>>

\* process_frame returns or raises in its worker; the future is done
TaskFinish(j) ==
    /\ task[j] = "running"
    /\ pc \in {"submitted", "collect"} => Cardinality(Done \ Yielded) < MaxBacklog
    /\ task' = [task EXCEPT ![j] = "done"]
    /\ waiter' = IF pc = "collect" THEN Append(waiter, j) ELSE waiter
    /\ UNCHANGED <<caller, frames, roi_coords, ignore_worm, workers, pc,
                   stop_processing, finished, yielded, results, writes,
                   progress, ret, axes, assembled, computed_ignore_worm>>
    /\ UNCHANGED <<signal_vars, call_vars, batch_vars>>

\* Lines 179-185: a future is handed over and the stop flag is found set
StopObserved(j) ==
    /\ pc = "collect"
    /\ j \in Ready
    /\ stop_processing
    /\ pc' = "ret185"
    /\ ret' = AbortedOutcome
    /\ finished' = {}
    /\ waiter' = <<>>
    /\ yielded' = <<>>
    /\ results' = [i \in AllFrames |-> None]
    /\ writes' = [i \in AllFrames |-> 0]
    /\ progress' = 0
    /\ UNCHANGED <<caller, frames, roi_coords, ignore_worm, workers,
                   stop_processing, task, axes, assembled, computed_ignore_worm>>
    /\ UNCHANGED <<signal_vars, call_vars, batch_vars>>

\* Lines 179-194: a future is handed over, the stop flag is clear, its
\* result is recorded and the window updated; after the last future,
\* lines 201-275: assembly, classifier, return.
Record(j, click) ==
    /\ pc = "collect"
    /\ j \in Ready
    /\ ~stop_processing
    /\ LET frame_result == FutureResult(process_frame(j, frames, roi_coords, ignore_worm), roi_coords)
           res == StoreResult(results, j, frame_result)
           M == Assemble(res, roi_coords)
       IN  /\ results' = res
           /\ writes' = [i \in AllFrames |->
                           IF res[i] # results[i] THEN writes[i] + 1 ELSE writes[i]]
           /\ IF Yielded \cup {j} = AllFrames
              THEN /\ pc' = "ret275"
                   /\ assembled' = M
                   /\ computed_ignore_worm' =
                         IF RunsClassifier(ignore_worm) THEN Some(ComputedIgnoreWorm(M)) ELSE None
                   /\ ret' = <<Classified(M, ignore_worm).area,
                               Classified(M, ignore_worm).centroid,
                               Classified(M, ignore_worm).ecc>>
                   /\ axes' = <<Classified(M, ignore_worm).major,
                                Classified(M, ignore_worm).minor>>
              ELSE /\ pc' = pc
                   /\ UNCHANGED <<ret, axes, assembled, computed_ignore_worm>>
    /\ yielded' = Append(yielded, j)
    /\ waiter' = IF j \in finished THEN waiter ELSE Tail(waiter)
    /\ progress' = progress + 1
    /\ Update(click)
    /\ UNCHANGED <<caller, frames, roi_coords, ignore_worm, workers, task, finished>>
    /\ UNCHANGED <<signal_vars, call_vars, batch_vars>>

Next ==
    \/ \E click \in BOOLEAN : Submit(click)
    \/ \E click \in BOOLEAN : PoolFailure(click)
    \/ AsCompleted
    \/ \E j \in OldestQueued : TaskStart(j)
    \/ \E j \in Running : TaskFinish(j)
    \/ \E j \in Ready : StopObserved(j)
    \/ \E j \in Ready, click \in BOOLEAN : Record(j, click)

Spec == Init /\ [][Next]_vars

---------------------------------------------------------------------------
(* Floats of the signal stage *)

\* A float is a pair <<n, d>>: the fraction n/d in lowest terms with d > 0,
\* or np.inf <<1, 0>>, -np.inf <<-1, 0>>, np.nan <<0, 0>>.  Eccentricities
\* and the two peak thresholds stay in thousandths.
Abs(n) == IF n < 0 THEN -n ELSE n
Sign(n) == IF n > 0 THEN 1 ELSE IF n < 0 THEN -1 ELSE 0
Max(a, b) == IF a >= b THEN a ELSE b
Min(a, b) == IF a <= b THEN a ELSE b

RECURSIVE Gcd(_, _)
Gcd(a, b) == IF b = 0 THEN a ELSE Gcd(b, a % b)

Float(n, d) ==
    IF d = 0 THEN <<Sign(n), 0>>
    ELSE LET g == Gcd(Abs(n), Abs(d))
         IN  <<(Sign(d) * n) \div g, Abs(d) \div g>>

nan == <<0, 0>>
inf == <<1, 0>>
Zero == <<0, 1>>
isnan(a) == a = nan
IsInf(a) == a[2] = 0 /\ a[1] # 0

\* A numpy array: the function with all its values computed
Array(f) == f @@ <<>>

\* A raw measurement (integer, or NaN) as a float
ToFloat(x) == IF IsNaN(x) THEN nan ELSE <<x, 1>>

FNeg(a) == <<-a[1], a[2]>>

FAdd(a, b) ==
    IF isnan(a) \/ isnan(b) THEN nan
    ELSE IF IsInf(a) /\ IsInf(b) THEN (IF a = b THEN a ELSE nan)
    ELSE IF IsInf(a) THEN a
    ELSE IF IsInf(b) THEN b
    ELSE Float(a[1] * b[2] + b[1] * a[2], a[2] * b[2])

FSub(a, b) == FAdd(a, FNeg(b))

FMul(a, b) ==
    IF isnan(a) \/ isnan(b) THEN nan
    ELSE Float(a[1] * b[1], a[2] * b[2])

FInv(a) ==
    IF isnan(a) THEN nan
    ELSE IF a[1] = 0 THEN inf
    ELSE IF a[2] = 0 THEN Zero
    ELSE Float(a[2], a[1])

FDiv(a, b) == FMul(a, FInv(b))

\* Comparisons with np.nan are False
FLt(a, b) ==
    /\ ~isnan(a)
    /\ ~isnan(b)
    /\ IF IsInf(a) /\ IsInf(b) THEN a[1] < b[1]
       ELSE a[1] * b[2] < b[1] * a[2]

FGt(a, b) == FLt(b, a)

\* np.sqrt, on the fractions whose root is a fraction
ISqrt(n) == CHOOSE r \in 0 .. n : r * r = n
FSqrt(a) ==
    IF isnan(a) \/ a[1] < 0 THEN nan
    ELSE IF IsInf(a) THEN inf
    ELSE <<ISqrt(a[1]), ISqrt(a[2])>>

---------------------------------------------------------------------------
(* SignalProcessor.detect_peaks *)

DetectStart ==
    [maxtab |-> <<>>, mintab |-> <<>>, mn |-> inf, mx |-> FNeg(inf),
     mnpos |-> None, mxpos |-> None, look_for_max |-> TRUE]

DetectStepKeepsMin(st, v, delta, i) ==
    LET this == v[i]
        s1 == IF FGt(this, st.mx) THEN [st EXCEPT !.mx = this, !.mxpos = i] ELSE st
        s2 == IF FLt(this, s1.mn) THEN [s1 EXCEPT !.mn = this, !.mnpos = i] ELSE s1
    IN  IF s2.look_for_max
        THEN IF FLt(this, FSub(s2.mx, delta))
             THEN [s2 EXCEPT !.maxtab = Append(@, <<s2.mxpos, s2.mx>>),
                             !.look_for_max = FALSE]
             ELSE s2
        ELSE IF FGt(this, FAdd(s2.mn, delta))
             THEN [s2 EXCEPT !.mintab = Append(@, <<s2.mnpos, s2.mn>>),
                             !.mx = this, !.mxpos = i, !.look_for_max = TRUE]
             ELSE s2

\* Mutant: the search for a maximum goes on after a maximum
DetectStepWithoutSwitch(st, v, delta, i) ==
    LET this == v[i]
        s1 == IF FGt(this, st.mx) THEN [st EXCEPT !.mx = this, !.mxpos = i] ELSE st
        s2 == IF FLt(this, s1.mn) THEN [s1 EXCEPT !.mn = this, !.mnpos = i] ELSE s1
    IN  IF s2.look_for_max
        THEN IF FLt(this, FSub(s2.mx, delta))
             THEN [s2 EXCEPT !.maxtab = Append(@, <<s2.mxpos, s2.mx>>),
                             !.mn = this, !.mnpos = i]
             ELSE s2
        ELSE IF FGt(this, FAdd(s2.mn, delta))
             THEN [s2 EXCEPT !.mintab = Append(@, <<s2.mnpos, s2.mn>>),
                             !.mx = this, !.mxpos = i, !.look_for_max = TRUE]
             ELSE s2

DetectStepLastIndex(st, v, delta, i) ==
    LET this == v[i]
        s1 == IF ~FLt(this, st.mx) /\ ~isnan(this)
              THEN [st EXCEPT !.mx = this, !.mxpos = i] ELSE st
        s2 == IF FLt(this, s1.mn) THEN [s1 EXCEPT !.mn = this, !.mnpos = i] ELSE s1
    IN  IF s2.look_for_max
        THEN IF FLt(this, FSub(s2.mx, delta))
             THEN [s2 EXCEPT !.maxtab = Append(@, <<s2.mxpos, s2.mx>>),
                             !.mn = this, !.mnpos = i, !.look_for_max = FALSE]
             ELSE s2
        ELSE IF FGt(this, FAdd(s2.mn, delta))
             THEN [s2 EXCEPT !.mintab = Append(@, <<s2.mnpos, s2.mn>>),
                             !.mx = this, !.mxpos = i, !.look_for_max = TRUE]
             ELSE s2

\* One iteration of the loop of lines 37-56
DetectStep(st, v, delta, i) ==
    LET this == v[i]
        s1 == IF FGt(this, st.mx) THEN [st EXCEPT !.mx = this, !.mxpos = i] ELSE st
        s2 == IF FLt(this, s1.mn) THEN [s1 EXCEPT !.mn = this, !.mnpos = i] ELSE s1
    IN  IF s2.look_for_max
        THEN IF FLt(this, FSub(s2.mx, delta))
             THEN [s2 EXCEPT !.maxtab = Append(@, <<s2.mxpos, s2.mx>>),
                             !.mn = this, !.mnpos = i, !.look_for_max = FALSE]
             ELSE s2
        ELSE IF FGt(this, FAdd(s2.mn, delta))
             THEN [s2 EXCEPT !.mintab = Append(@, <<s2.mnpos, s2.mn>>),
                             !.mx = this, !.mxpos = i, !.look_for_max = TRUE]
             ELSE s2

\* The loop over samples lo..hi in increasing order: the state after the
\* first half of the samples is computed, then the second half runs from it
RECURSIVE DetectLoop(_, _, _, _, _)
DetectLoop(st, v, delta, lo, hi) ==
    IF lo > hi THEN st
    ELSE IF lo = hi THEN DetectStep(st, v, delta, lo)
    ELSE LET mid == (lo + hi) \div 2
             first == DetectLoop(st, v, delta, lo, mid)
         IN  IF Len(first.maxtab) >= Len(st.maxtab)
             THEN DetectLoop(first, v, delta, mid + 1, hi)
             ELSE first

PeakListsWithTracked(st) ==
    [maxtab |-> IF st.look_for_max /\ st.mx # FNeg(inf)
                THEN Append(st.maxtab, <<st.mxpos, st.mx>>) ELSE st.maxtab,
     mintab |-> IF ~st.look_for_max /\ st.mn # inf
                THEN Append(st.mintab, <<st.mnpos, st.mn>>) ELSE st.mintab]

\* Line 58: return maxtab, mintab
PeakLists(st) == [maxtab |-> st.maxtab, mintab |-> st.mintab]

detect_peaks(v, delta) ==
    PeakLists(DetectLoop(DetectStart, v, delta, 0, Cardinality(DOMAIN v) - 1))

---------------------------------------------------------------------------
(* SignalProcessor.moving_average *)

MovingAverageRaises(window_size) == window_size < 1

RECURSIVE Sum(_, _, _)
Sum(data, start, end) ==
    IF start >= end THEN Zero
    ELSE FAdd(data[start], Sum(data, start + 1, end))

\* np.mean(data[start:end])
Mean(data, start, end) == FDiv(Sum(data, start, end), <<end - start, 1>>)

MovingAverageZeroPadded(data, window_size) ==
    LET n == Cardinality(DOMAIN data)
        w == window_size
        half_window == (w - 1) \div 2
        left(i) == i - half_window
        right(i) == i + half_window + 1 + (IF w % 2 = 0 THEN 1 ELSE 0)
        start(i) == Max(0, left(i))
        end(i) == Min(n, right(i))
    IN  Array([i \in 0 .. (n - 1) |->
                 FDiv(Sum(data, start(i), end(i)), <<right(i) - left(i), 1>>)])

\* Mutant: an even window is as wide as the odd one below it
MovingAverageSymmetric(data, window_size) ==
    LET n == Cardinality(DOMAIN data)
        half_window == (window_size - 1) \div 2
        start(i) == Max(0, i - half_window)
        end(i) == Min(n, i + half_window + 1)
    IN  Array([i \in 0 .. (n - 1) |-> Mean(data, start(i), end(i))])

moving_average(data, window_size) ==
    LET n == Cardinality(DOMAIN data)
        w == window_size
        half_window == (w - 1) \div 2
        left(i) == i - half_window
        right(i) == i + half_window + 1 + (IF w % 2 = 0 THEN 1 ELSE 0)
        start(i) == Max(0, left(i))
        end(i) == Min(n, right(i))
    IN  Array([i \in 0 .. (n - 1) |-> Mean(data, start(i), end(i))])

---------------------------------------------------------------------------
(* SignalProcessor.process_signals *)

\* analyzer.params; eccentricity thresholds in thousandths
DefaultParams ==
    [Eccentricity_filsize |-> 3,
     Area_filsize |-> 9,
     Centroid_filsize |-> 9,
     peak_det_abs_threshold |-> <<850, 1>>,
     peak_det_threshold |-> <<150, 1>>,
     Centroid_r_threshold |-> <<7, 10>>,
     area_threshold |-> <<7, 10>>]

Floats(row) == Array([f \in DOMAIN row |-> ToFloat(row[f])])

\* Line 138: the ROI has no data
Skipped(ecc, centroid, area) ==
    /\ \A f \in DOMAIN ecc : IsNaN(ecc[f])
    /\ \A f \in DOMAIN centroid : IsNaN(centroid[f][1]) /\ IsNaN(centroid[f][2])
    /\ \A f \in DOMAIN area : IsNaN(area[f])

RectWidth(rect) == rect[2][1] - rect[1][1]
RectHeight(rect) == rect[2][2] - rect[1][2]
DropletRadius(rect) == Float(RectWidth(rect) + RectHeight(rect), 4)

\* Line 150
CentroidR(centroid, rect) ==
    Array([f \in DOMAIN centroid |->
        LET d0 == FSub(ToFloat(centroid[f][1]), Float(RectWidth(rect), 2))
            d1 == FSub(ToFloat(centroid[f][2]), Float(RectHeight(rect), 2))
        IN  FDiv(FSqrt(FAdd(FMul(d0, d0), FMul(d1, d1))), DropletRadius(rect))])

\* np.nanmedian of a raw series: the middle of its sorted non-NaN samples
nanmedian(area) ==
    LET present == {f \in DOMAIN area : ~IsNaN(area[f])}
        m == Cardinality(present)
        below(x) == Cardinality({f \in present : area[f] < x})
        upto(x) == Cardinality({f \in present : area[f] <= x})
        sorted(i) == CHOOSE x \in {area[f] : f \in present} : below(x) <= i /\ i < upto(x)
    IN  IF m = 0 THEN nan
        ELSE IF m % 2 = 1 THEN <<sorted((m - 1) \div 2), 1>>
        ELSE Float(sorted(m \div 2 - 1) + sorted(m \div 2), 2)

\* Lines 159-161: frames of the minima below the absolute threshold
TurnData(ecc_smooth, p) ==
    LET mintab == detect_peaks(ecc_smooth, p.peak_det_threshold).mintab
        peaks == {mintab[i][1] : i \in {i \in 1 .. Len(mintab) :
                                          FLt(mintab[i][2], p.peak_det_abs_threshold)}}
    IN  Array([f \in DOMAIN ecc_smooth |-> f \in peaks])

DataInvalidWhenBoth(centroid_smooth, area_smooth, area, p) ==
    LET floor == FMul(p.area_threshold, nanmedian(area))
    IN  Array([f \in DOMAIN area |->
                 /\ FGt(centroid_smooth[f], p.Centroid_r_threshold)
                 /\ FLt(area_smooth[f], floor)])

\* Lines 164-167
DataInvalid(centroid_smooth, area_smooth, area, p) ==
    LET floor == FMul(p.area_threshold, nanmedian(area))
    IN  Array([f \in DOMAIN area |->
                 \/ FGt(centroid_smooth[f], p.Centroid_r_threshold)
                 \/ FLt(area_smooth[f], floor)])

TurnsWithoutValidity(turndata, data_invalid) ==
    [f \in DOMAIN turndata |-> turndata[f]]

\* Line 170
ValidTurns(turndata, data_invalid) ==
    [f \in DOMAIN turndata |-> turndata[f] /\ ~data_invalid[f]]

\* Lines 121-129: what a skipped ROI keeps
SkippedRoi(ecc) ==
    [centroid_smooth |-> [f \in DOMAIN ecc |-> Zero],
     ecc_smooth |-> [f \in DOMAIN ecc |-> Zero],
     area_smooth |-> [f \in DOMAIN ecc |-> Zero],
     radius |-> Zero,
     data_invalid |-> [f \in DOMAIN ecc |-> FALSE],
     turndata_valid |-> [f \in DOMAIN ecc |-> FALSE]]

\* Lines 133-170: one iteration of the ROI loop
ProcessRoi(ecc, centroid, area, rect, p) ==
    IF Skipped(ecc, centroid, area) THEN SkippedRoi(ecc)
    ELSE LET ecc_smooth == moving_average(Floats(ecc), p.Eccentricity_filsize)
             area_smooth == moving_average(Floats(area), p.Area_filsize)
             centroid_smooth == moving_average(CentroidR(centroid, rect), p.Centroid_filsize)
             data_invalid == DataInvalid(centroid_smooth, area_smooth, area, p)
         IN  [centroid_smooth |-> centroid_smooth,
              ecc_smooth |-> ecc_smooth,
              area_smooth |-> area_smooth,
              radius |-> DropletRadius(rect),
              data_invalid |-> data_invalid,
              turndata_valid |-> ValidTurns(TurnData(ecc_smooth, p), data_invalid)]

\* moving_average raises ValueError in the first ROI that is not skipped
ProcessSignalsRaises(ecc, centroid, area, p) ==
    /\ \E kk \in DOMAIN ecc : ~Skipped(ecc[kk], centroid[kk], area[kk])
    /\ \/ MovingAverageRaises(p.Eccentricity_filsize)
       \/ MovingAverageRaises(p.Area_filsize)
       \/ MovingAverageRaises(p.Centroid_filsize)

process_signals(ecc, centroid, area, rc, p) ==
    LET roi == Array([kk \in DOMAIN ecc |->
                         ProcessRoi(ecc[kk], centroid[kk], area[kk], At(rc, kk), p)])
    IN  [valid_turns |-> [kk \in DOMAIN ecc |-> roi[kk].turndata_valid],
         invalid_data |-> [kk \in DOMAIN ecc |-> roi[kk].data_invalid],
         bw_Eccentricity_filtered |-> [kk \in DOMAIN ecc |-> roi[kk].ecc_smooth],
         bw_Area_filtered |-> [kk \in DOMAIN ecc |-> roi[kk].area_smooth],
         bw_Centroid_r_filtered |-> [kk \in DOMAIN ecc |-> roi[kk].centroid_smooth],
         droplet_radius |-> [kk \in DOMAIN ecc |-> roi[kk].radius]]

---------------------------------------------------------------------------
(* GroupingApp.get_grouping and analysis.analyze_turns *)

halfperiod == 300

\* Lines 36-38: frames1 and frames2
InPhase(f, phase) == ((f \div halfperiod) % 2 = 0) <=> (phase = 1)

\* The text of the custom-grouping entry, split at the commas: a token is a
\* range "a-b", a single index "a", or text that int() rejects
RangeToken(a, b) == [kind |-> "range", start |-> a, end |-> b]
SingleToken(a) == [kind |-> "single", start |-> a, end |-> a]
BadToken == [kind |-> "bad", start |-> 0, end |-> 0]

\* Lines 107-120: np.arange(start, end + 1), or np.array([int(grp)])
GroupOfToken(token) == token.start .. token.end

get_grouping(num_roi, batch_mode, choice) ==
    IF batch_mode /\ num_roi = 12 THEN Some(<<0 .. 5, 6 .. 11>>)
    ELSE IF num_roi = 12
    THEN IF choice.option = "1" THEN Some(<<0 .. 2, 3 .. 5, 6 .. 8, 9 .. 11>>)
         ELSE IF choice.option = "2" THEN Some(<<0 .. 5, 6 .. 11>>)
         ELSE IF choice.option = "3"
         THEN IF choice.custom = <<>> THEN None
              ELSE IF \E i \in 1 .. Len(choice.custom) : choice.custom[i].kind = "bad" THEN None
              ELSE Some([i \in 1 .. Len(choice.custom) |-> GroupOfToken(choice.custom[i])])
         ELSE None
    ELSE IF num_roi = 15
    THEN IF choice.option = "1" THEN Some(<<0 .. 5, 9 .. 11, 6 .. 8, 12 .. 14>>)
         ELSE None
    ELSE None

\* Lines 47-50: valid turns of the ROI in the phase
NumTurns(turns, roi, phase) ==
    Cardinality({f \in DOMAIN turns[roi] : turns[roi][f] /\ InPhase(f, phase)})

\* Mutant: every (member, frame) pair of the phase
ValidCountOfAllFrames(invalid, members, phase) ==
    Cardinality({kf \in members \X DOMAIN invalid[0] : InPhase(kf[2], phase)})

\* Lines 78-81: (member, frame) pairs of the phase that are not invalid
ValidCount(invalid, members, phase) ==
    Cardinality({kf \in members \X DOMAIN invalid[0] :
                    ~invalid[kf[1]][kf[2]] /\ InPhase(kf[2], phase)})

RECURSIVE SumTurns(_, _, _)
SumTurns(turns, members, phase) ==
    IF members = {} THEN 0
    ELSE LET roi == CHOOSE k \in members : TRUE
         IN  NumTurns(turns, roi, phase) + SumTurns(turns, members \ {roi}, phase)

\* Lines 77-84
TurnRate(turns, invalid, members, phase) ==
    IF ValidCount(invalid, members, phase) > 0
    THEN Float(SumTurns(turns, members, phase), ValidCount(invalid, members, phase))
    ELSE nan

ChoiceIndexZeroWithoutTurns(rate1, rate2) ==
    LET sum_rates == FAdd(rate1, rate2)
    IN  IF FGt(sum_rates, Zero) THEN FDiv(FSub(rate1, rate2), sum_rates)
        ELSE IF sum_rates = Zero THEN Zero
        ELSE nan

\* Lines 86-90
ChoiceIndex(rate1, rate2) ==
    LET sum_rates == FAdd(rate1, rate2)
    IN  IF FGt(sum_rates, Zero) THEN FDiv(FSub(rate1, rate2), sum_rates) ELSE nan

\* Lines 70-90: one group
GroupStatistics(turns, invalid, members) ==
    IF members = {} THEN [turn_rate |-> <<nan, nan>>, choice_index |-> nan]
    ELSE LET rate1 == TurnRate(turns, invalid, members, 1)
             rate2 == TurnRate(turns, invalid, members, 2)
         IN  [turn_rate |-> <<rate1, rate2>>, choice_index |-> ChoiceIndex(rate1, rate2)]

\* Line 71
MembersInRange(group, num_roi) == {k \in group : k < num_roi}

ChoiceIndexIndividualNotNormalised(turns, roi) ==
    LET turns_01 == NumTurns(turns, roi, 1)
        turns_02 == NumTurns(turns, roi, 2)
    IN  IF turns_01 + turns_02 > 0
        THEN Float(turns_01 - turns_02, 1)
        ELSE nan

\* Lines 93-97
ChoiceIndexIndividual(turns, roi) ==
    LET turns_01 == NumTurns(turns, roi, 1)
        turns_02 == NumTurns(turns, roi, 2)
    IN  IF turns_01 + turns_02 > 0
        THEN Float(turns_01 - turns_02, turns_01 + turns_02)
        ELSE nan

Cancelled == <<None, None, None, None>>

analyze_turns(turns, invalid, rc, grouping) ==
    LET num_roi == Len(rc)
        stats == [g \in 1 .. Len(grouping) |->
                     GroupStatistics(turns, invalid, MembersInRange(grouping[g], num_roi))]
    IN  [num_turns_all |-> [roi \in 0 .. (num_roi - 1) |->
                               <<NumTurns(turns, roi, 1), NumTurns(turns, roi, 2)>>],
         turn_rate_grouped |-> [g \in 1 .. Len(grouping) |-> stats[g].turn_rate],
         choice_index_grouped |-> [g \in 1 .. Len(grouping) |-> stats[g].choice_index],
         choice_index_individual |-> [roi \in 0 .. (num_roi - 1) |->
                                         ChoiceIndexIndividual(turns, roi)]]

---------------------------------------------------------------------------
(* Inputs of the signal stage: what process_images measured *)

MaxSignalFrames == 5     \* frames of a short recording
GroupedRois == 12        \* droplets of a plate

EccLevels == {300, 900}

NoBlob == [area |-> NaN, centroid |-> <<NaN, NaN>>, ecc |-> NaN]

\* What the frame shows in the ROI: a worm of the given eccentricity in the
\* middle of the droplet, or a small one, or one far from the middle, or a
\* small one far from the middle, or none
Observation(ecc, kind) ==
    IF kind = "nan" THEN NoBlob
    ELSE [area |-> IF kind \in {"small", "both"} THEN 4 ELSE 100,
          centroid |-> IF kind \in {"far", "both"} THEN <<32, 36>> ELSE <<20, 20>>,
          ecc |-> ecc]

\* A disturbance of kind "drift" is a worm that is small in the frame of
\* the place and the next one, and far from the middle in the next two
Disturbances ==
    {[kind |-> "none", place |-> "all"]} \cup
    [kind : {"small", "far", "nan", "drift"}, place : {"first", "second", "last", "all"}]

Disturbed(f, n, place) ==
    \/ place = "all"
    \/ place = "first" /\ f = 0
    \/ place = "second" /\ f = 1
    \/ place = "last" /\ f = n - 1

FrameKind(f, n, d) ==
    IF d.kind = "drift"
    THEN LET small == Disturbed(f, n, d.place) \/ Disturbed(f - 1, n, d.place)
             far == Disturbed(f - 1, n, d.place) \/ Disturbed(f - 2, n, d.place)
         IN  IF small /\ far THEN "both"
             ELSE IF small THEN "small"
             ELSE IF far THEN "far"
             ELSE "none"
    ELSE IF Disturbed(f, n, d.place) THEN d.kind ELSE "none"

Series(eccs, d) ==
    [f \in 0 .. (Len(eccs) - 1) |-> Observation(eccs[f + 1], FrameKind(f, Len(eccs), d))]

EccSeries == UNION {[1 .. n -> EccLevels] : n \in 1 .. MaxSignalFrames}

ShortSeries == {Series(eccs, d) : eccs \in EccSeries, d \in Disturbances}

PlainSeries == {Series(eccs, [kind |-> "none", place |-> "all"]) : eccs \in EccSeries}

\* A dip of the eccentricity in the third frame of MaxSignalFrames
Turning == [f \in 0 .. (MaxSignalFrames - 1) |->
               Observation(IF f = 2 THEN 300 ELSE 900, "none")]
Steady == [f \in 0 .. (MaxSignalFrames - 1) |-> Observation(900, "none")]

\* A recording that reaches the second phase: begin, steady until the end
\* of the first half period, then again
LongSeries(begin, again) ==
    [f \in 0 .. (halfperiod + MaxSignalFrames - 1) |->
        IF f < MaxSignalFrames THEN begin[f]
        ELSE IF f < halfperiod THEN Observation(900, "none")
        ELSE again[f - halfperiod]]

LongSeriesSet == {LongSeries(begin, again) : begin, again \in {Turning, Steady}}

Silent(s) == [f \in DOMAIN s |-> NoBlob]
Reversed(s) == [f \in DOMAIN s |-> s[Cardinality(DOMAIN s) - 1 - f]]

\* The plate: the worm of ROI 0 alone, or with worms in ROIs 1 and 6
Plates == {"alone", "spread"}

Recording(s, plate) ==
    [k \in 0 .. (GroupedRois - 1) |->
        IF k = 0 THEN s
        ELSE IF plate = "spread" /\ k = 1 THEN Reversed(s)
        ELSE IF plate = "spread" /\ k = 6 THEN s
        ELSE Silent(s)]

AreaOf(rec) == [k \in DOMAIN rec |-> [f \in DOMAIN rec[k] |-> rec[k][f].area]]
CentroidOf(rec) == [k \in DOMAIN rec |-> [f \in DOMAIN rec[k] |-> rec[k][f].centroid]]
EccentricityOf(rec) == [k \in DOMAIN rec |-> [f \in DOMAIN rec[k] |-> rec[k][f].ecc]]

PlateRois == [k \in 1 .. GroupedRois |-> Rect(k - 1)]

\* Manual and automatic selection leave None for the ROIs the user ignores
SelectedRois(rec) ==
    [k \in 1 .. GroupedRois |->
        IF k > 1 /\ rec[k - 1] = Silent(rec[0]) THEN None ELSE Rect(k - 1)]

\* The thresholds the user may enter in the parameter dialog
EnteredThresholds ==
    {[peak_det_abs_threshold |-> <<850, 1>>, peak_det_threshold |-> <<150, 1>>,
      Centroid_r_threshold |-> <<7, 10>>, area_threshold |-> <<7, 10>>],
     [peak_det_abs_threshold |-> <<650, 1>>, peak_det_threshold |-> <<250, 1>>,
      Centroid_r_threshold |-> <<1, 2>>, area_threshold |-> <<9, 10>>]}

\* The parameters of a direct call of process_signals
DirectParams ==
    {[DefaultParams EXCEPT !.Eccentricity_filsize = w, !.Area_filsize = w,
                           !.Centroid_filsize = w] : w \in {1, 2}}
    \cup {[DefaultParams EXCEPT !.Eccentricity_filsize = 0]}

CustomEntries ==
    {<<>>,
     <<RangeToken(0, 5), RangeToken(6, 11)>>,
     <<SingleToken(0), RangeToken(1, 2), RangeToken(12, 14)>>,
     <<RangeToken(0, 2), BadToken>>}

NoDialog == [option |-> "none", custom |-> None]

DialogChoices ==
    {[option |-> o, custom |-> None] : o \in {"1", "2", "closed"}}
    \cup {[option |-> "3", custom |-> c] : c \in CustomEntries}

---------------------------------------------------------------------------
(* The signal stage as a state machine *)

numframes == Cardinality(DOMAIN bw_Eccentricity[0])
batch_mode == caller = "batch"

SignalInit ==
    /\ BatchIdle
    /\ \/ /\ caller = "batch"
          /\ \E s \in ShortSeries \cup LongSeriesSet, plate \in Plates :
                /\ bw_Area = AreaOf(Recording(s, plate))
                /\ bw_Centroid = CentroidOf(Recording(s, plate))
                /\ bw_Eccentricity = EccentricityOf(Recording(s, plate))
          /\ roi_coords = PlateRois
          /\ params = DefaultParams
          /\ pc = "process_signals"
       \/ /\ caller = "auto"
          /\ \E s \in PlainSeries :
                /\ bw_Area = AreaOf(Recording(s, "alone"))
                /\ bw_Centroid = CentroidOf(Recording(s, "alone"))
                /\ bw_Eccentricity = EccentricityOf(Recording(s, "alone"))
                /\ roi_coords = SelectedRois(Recording(s, "alone"))
          /\ params = DefaultParams
          /\ pc = "get_parameters"
       \/ /\ caller = "direct"
          /\ \E s \in ShortSeries :
                /\ bw_Area = AreaOf(Recording(s, "alone"))
                /\ bw_Centroid = CentroidOf(Recording(s, "alone"))
                /\ bw_Eccentricity = EccentricityOf(Recording(s, "alone"))
          /\ roi_coords = PlateRois
          /\ params \in DirectParams
          /\ pc = "process_signals"
    /\ stop_processing = FALSE
    /\ frames = <<>>
    /\ ignore_worm = <<>>
    /\ workers = 0
    /\ task = <<>>
    /\ finished = {}
    /\ waiter = <<>>
    /\ yielded = <<>>
    /\ results = <<>>
    /\ writes = <<>>
    /\ progress = 0
    /\ ret = None
    /\ axes = None
    /\ assembled = None
    /\ computed_ignore_worm = None
    /\ valid_turns = None
    /\ invalid_data = None
    /\ bw_Eccentricity_filtered = None
    /\ bw_Area_filtered = None
    /\ bw_Centroid_r_filtered = None
    /\ droplet_radius = None
    /\ groups = None
    /\ analysis = None
    /\ call = NoCall
    /\ result = None
    /\ detector = None

\* analyzer.py 450-453, 476-529: the parameter dialog of single mode
\* The user presses OK (on_ok, lines 511-516)
GetParametersOk(entered) ==
    /\ pc = "get_parameters"
    /\ params' = [params EXCEPT
                    !.peak_det_abs_threshold = entered.peak_det_abs_threshold,
                    !.peak_det_threshold = entered.peak_det_threshold,
                    !.Centroid_r_threshold = entered.Centroid_r_threshold,
                    !.area_threshold = entered.area_threshold]
    /\ pc' = "process_signals"
    /\ UNCHANGED <<caller, roi_coords, stop_processing, image_vars, call_vars, batch_vars, bw_Area,
                   bw_Centroid, bw_Eccentricity, valid_turns, invalid_data,
                   bw_Eccentricity_filtered, bw_Area_filtered,
                   bw_Centroid_r_filtered, droplet_radius, groups, analysis>>

\* The user presses Cancel or closes the dialog (on_cancel, lines 520-523)
GetParametersCancel ==
    /\ pc = "get_parameters"
    /\ stop_processing' = TRUE
    /\ pc' = "stopped"
    /\ UNCHANGED <<caller, roi_coords, image_vars, call_vars, batch_vars, signal_vars>>

\* analyzer.py 456-465: SignalProcessor(...).process_signals(self.params)
ProcessSignals ==
    /\ pc = "process_signals"
    /\ IF ProcessSignalsRaises(bw_Eccentricity, bw_Centroid, bw_Area, params)
       THEN /\ pc' = "raised"
            /\ UNCHANGED <<valid_turns, invalid_data, bw_Eccentricity_filtered,
                           bw_Area_filtered, bw_Centroid_r_filtered, droplet_radius>>
       ELSE \E out \in {process_signals(bw_Eccentricity, bw_Centroid, bw_Area,
                                         roi_coords, params)} :
                /\ valid_turns' = out.valid_turns
                /\ invalid_data' = out.invalid_data
                /\ bw_Eccentricity_filtered' = out.bw_Eccentricity_filtered
                /\ bw_Area_filtered' = out.bw_Area_filtered
                /\ bw_Centroid_r_filtered' = out.bw_Centroid_r_filtered
                /\ droplet_radius' = out.droplet_radius
                /\ pc' = IF caller = "direct" THEN "returned" ELSE "analyze_turns"
    /\ UNCHANGED <<caller, roi_coords, stop_processing, image_vars, call_vars, batch_vars, bw_Area,
                   bw_Centroid, bw_Eccentricity, params, groups, analysis>>

\* analyzer.py 468-471: analyze_turns with the grouping of get_grouping
AnalyzeTurns(choice) ==
    /\ pc = "analyze_turns"
    /\ \E grouping \in {get_grouping(Len(roi_coords), batch_mode, choice)} :
           IF grouping = None
           THEN /\ pc' = IF batch_mode THEN "raised" ELSE "analyzed"
                /\ analysis' = IF batch_mode THEN analysis ELSE Cancelled
                /\ UNCHANGED groups
           ELSE /\ pc' = "analyzed"
                /\ groups' = grouping[1]
                /\ analysis' = analyze_turns(valid_turns, invalid_data, roi_coords, grouping[1])
    /\ UNCHANGED <<caller, roi_coords, stop_processing, image_vars, call_vars, batch_vars, bw_Area,
                   bw_Centroid, bw_Eccentricity, params, valid_turns,
                   invalid_data, bw_Eccentricity_filtered, bw_Area_filtered,
                   bw_Centroid_r_filtered, droplet_radius>>

SignalNext ==
    \/ \E entered \in EnteredThresholds : GetParametersOk(entered)
    \/ GetParametersCancel
    \/ ProcessSignals
    \/ \E choice \in (IF batch_mode THEN {NoDialog} ELSE DialogChoices) : AnalyzeTurns(choice)

SpecSignal == SignalInit /\ [][SignalNext]_vars

---------------------------------------------------------------------------
(* Direct calls: what every call specification leaves idle *)

IdleStages ==
    /\ BatchIdle
    /\ caller = "direct"
    /\ roi_coords = <<>>
    /\ stop_processing = FALSE
    /\ frames = <<>>
    /\ ignore_worm = <<>>
    /\ workers = 0
    /\ task = <<>>
    /\ finished = {}
    /\ waiter = <<>>
    /\ yielded = <<>>
    /\ results = <<>>
    /\ writes = <<>>
    /\ progress = 0
    /\ ret = None
    /\ axes = None
    /\ assembled = None
    /\ computed_ignore_worm = None
    /\ bw_Area = None
    /\ bw_Centroid = None
    /\ bw_Eccentricity = None
    /\ params = None
    /\ valid_turns = None
    /\ invalid_data = None
    /\ bw_Eccentricity_filtered = None
    /\ bw_Area_filtered = None
    /\ bw_Centroid_r_filtered = None
    /\ droplet_radius = None
    /\ groups = None
    /\ analysis = None

stage_vars == <<caller, roi_coords, stop_processing, image_vars, signal_vars>>

\* The length of a numpy array
Size(v) == Cardinality(DOMAIN v)

---------------------------------------------------------------------------
(* detect_peaks called directly: the loop of lines 37-56, sample by sample *)

MaxSamples == 4          \* samples of a short series
RampSamples == 25        \* samples of each side of the triangle wave

SampleLevels == {<<0, 1>>, <<1, 1>>, <<2, 1>>, nan}

SampleSeries == UNION {[0 .. (n - 1) -> SampleLevels] : n \in 0 .. MaxSamples}

\* np.linspace(0, 1, RampSamples) followed by np.linspace(1, 0, RampSamples)
Triangle ==
    [i \in 0 .. (2 * RampSamples - 1) |->
        IF i < RampSamples THEN Float(i, RampSamples - 1)
        ELSE Float(2 * RampSamples - 1 - i, RampSamples - 1)]

\* The hysteresis thresholds a caller may pass: nothing restricts them
Deltas == {<<1, 2>>, <<3, 2>>, Zero, <<-1, 1>>}
TriangleDelta == <<1, 10>>

DetectV == call.args[1]
DetectDelta == call.args[2]

Event(kind, entry) == [kind |-> kind, index |-> entry[1], value |-> entry[2]]

Last(list) == list[Len(list)]

\* Lines 32-35; emitted lists the appends to maxtab and mintab in the order
\* they are made, since is the sample at which look_for_max last changed
DetectInit ==
    /\ IdleStages
    /\ pc = "detect_peaks"
    /\ \/ \E v \in SampleSeries, delta \in Deltas :
              call = [fn |-> "detect_peaks", args |-> <<v, delta>>]
       \/ call = [fn |-> "detect_peaks", args |-> <<Triangle, TriangleDelta>>]
    /\ result = None
    /\ detector = [st |-> DetectStart, i |-> 0, emitted |-> <<>>, since |-> 0]

\* One iteration of the for loop
DetectSample ==
    /\ pc = "detect_peaks"
    /\ detector.i < Size(DetectV)
    /\ \E st \in {DetectStep(detector.st, DetectV, DetectDelta, detector.i)} :
           detector' =
               [st |-> st,
                i |-> detector.i + 1,
                emitted |->
                    IF Len(st.maxtab) > Len(detector.st.maxtab)
                    THEN Append(detector.emitted, Event("max", Last(st.maxtab)))
                    ELSE IF Len(st.mintab) > Len(detector.st.mintab)
                    THEN Append(detector.emitted, Event("min", Last(st.mintab)))
                    ELSE detector.emitted,
                since |-> IF st.look_for_max # detector.st.look_for_max
                          THEN detector.i ELSE detector.since]
    /\ UNCHANGED <<pc, call, result, stage_vars, batch_vars>>

\* Line 58
DetectReturn ==
    /\ pc = "detect_peaks"
    /\ detector.i = Size(DetectV)
    /\ result' = Some(PeakLists(detector.st))
    /\ pc' = "done"
    /\ UNCHANGED <<call, detector, stage_vars, batch_vars>>

DetectNext ==
    \/ DetectSample
    \/ DetectReturn

SpecDetect == DetectInit /\ [][DetectNext]_vars

---------------------------------------------------------------------------
(* moving_average called directly *)

MaxWindow == 6           \* largest smoothing window, larger than a short series

Windows == -1 .. MaxWindow

SmoothData == call.args[1]
SmoothWindow == call.args[2]

SmoothInit ==
    /\ IdleStages
    /\ pc = "moving_average"
    /\ \E data \in SampleSeries, window_size \in Windows :
           call = [fn |-> "moving_average", args |-> <<data, window_size>>]
    /\ result = None
    /\ detector = None

\* Lines 65-80: ValueError, or the smoothed array
MovingAverage ==
    /\ pc = "moving_average"
    /\ IF MovingAverageRaises(SmoothWindow)
       THEN /\ result' = Some("ValueError")
            /\ pc' = "raised"
       ELSE /\ result' = Some(moving_average(SmoothData, SmoothWindow))
            /\ pc' = "done"
    /\ UNCHANGED <<call, detector, stage_vars, batch_vars>>

SmoothNext == MovingAverage

SpecSmooth == SmoothInit /\ [][SmoothNext]_vars

---------------------------------------------------------------------------
(* analyze_turns called directly on given turn and validity series *)

MaxLiveFrames == 2       \* frames of each phase in which the worms are in view

\* What a frame holds for an ROI: a valid turn, no turn, or invalid data
Cells == {"turn", "quiet", "invalid"}

\* The frames in view of the first phase and, in a recording that reaches
\* it, of the second phase
LivePatterns ==
    [first : [1 .. MaxLiveFrames -> Cells], second : [1 .. MaxLiveFrames -> Cells]]
    \cup [first : [1 .. MaxLiveFrames -> Cells], second : {<<>>}]

\* The worm is out of view, a.first and a.second apart
Out(a) == [first |-> [i \in 1 .. MaxLiveFrames |-> "invalid"],
           second |-> [i \in 1 .. Len(a.second) |-> "invalid"]]

Calm(cell) == IF cell = "turn" THEN "quiet" ELSE cell

\* The same worm without its turns of the second phase, and without any
WithoutSecondTurns(a) == [a EXCEPT !.second = [i \in DOMAIN a.second |-> Calm(a.second[i])]]
WithoutTurns(a) == [first |-> [i \in DOMAIN a.first |-> Calm(a.first[i])],
                    second |-> [i \in DOMAIN a.second |-> Calm(a.second[i])]]

\* ROI 0 holds the worm, ROIs 3 and 6 its calmer copies, the others nothing
PatternOfRoi(a, k) ==
    IF k = 0 THEN a
    ELSE IF k = 3 THEN WithoutSecondTurns(a)
    ELSE IF k = 6 THEN WithoutTurns(a)
    ELSE Out(a)

RecordedFrames(a) ==
    IF a.second = <<>> THEN MaxLiveFrames ELSE halfperiod + Len(a.second)

CellAt(a, f) ==
    IF f < MaxLiveFrames THEN a.first[f + 1]
    ELSE IF f < halfperiod THEN "invalid"
    ELSE a.second[f - halfperiod + 1]

\* valid_turns and invalid_data as process_signals lays them out
TurnsOf(a) ==
    [k \in 0 .. (GroupedRois - 1) |->
        [f \in 0 .. (RecordedFrames(a) - 1) |-> CellAt(PatternOfRoi(a, k), f) = "turn"]]
InvalidOf(a) ==
    [k \in 0 .. (GroupedRois - 1) |->
        [f \in 0 .. (RecordedFrames(a) - 1) |-> CellAt(PatternOfRoi(a, k), f) = "invalid"]]

\* The params argument of analyze_turns: the parameters of process_signals,
\* alone or with a half_period entry
AnalysisParams == {DefaultParams, [half_period |-> 1] @@ DefaultParams}

AnalysisInit ==
    /\ BatchIdle
    /\ caller \in {"batch", "auto"}
    /\ roi_coords = PlateRois
    /\ pc = "analyze_turns"
    /\ \E a \in LivePatterns :
          /\ valid_turns = TurnsOf(a)
          /\ invalid_data = InvalidOf(a)
    /\ stop_processing = FALSE
    /\ frames = <<>>
    /\ ignore_worm = <<>>
    /\ workers = 0
    /\ task = <<>>
    /\ finished = {}
    /\ waiter = <<>>
    /\ yielded = <<>>
    /\ results = <<>>
    /\ writes = <<>>
    /\ progress = 0
    /\ ret = None
    /\ axes = None
    /\ assembled = None
    /\ computed_ignore_worm = None
    /\ bw_Area = None
    /\ bw_Centroid = None
    /\ bw_Eccentricity = None
    /\ params \in AnalysisParams
    /\ bw_Eccentricity_filtered = None
    /\ bw_Area_filtered = None
    /\ bw_Centroid_r_filtered = None
    /\ droplet_radius = None
    /\ groups = None
    /\ analysis = None
    /\ call = NoCall
    /\ result = None
    /\ detector = None

AnalysisNext ==
    \E choice \in (IF batch_mode THEN {NoDialog} ELSE DialogChoices) : AnalyzeTurns(choice)

SpecAnalysis == AnalysisInit /\ [][AnalysisNext]_vars

---------------------------------------------------------------------------
(* auto_roi_detection.detect_circles_in_image and the batch item *)

MaxCircles == 3          \* circles the Hough transform reports

num_cols == 4
num_rows == 3
pad == 5

\* Centres the transform may report: minDist keeps them 60 pixels apart
Centres ==
    {<<100, 100>>, <<100, 200>>, <<230, 100>>, <<165, 105>>, <<400, 300>>, <<35, 300>>}

HoughRadius(centre) == IF centre = <<165, 105>> THEN 30 ELSE 40

\* Lines 113-116: circle_data, in the order of the transform
CircleData(centres) ==
    [i \in 1 .. Len(centres) |->
        [x |-> centres[i][1], y |-> centres[i][2], radius |-> HoughRadius(centres[i])]]

Injective(list) == \A i, j \in 1 .. Len(list) : list[i] = list[j] => i = j

\* What cv2.HoughCircles returns: None (the empty list here) or its circles
HoughLists ==
    {CircleData(centres) :
        centres \in {c \in UNION {[1 .. n -> Centres] : n \in 0 .. MaxCircles} : Injective(c)}}

ImageSize == [w |-> 500, h |-> 400]

SetMin(S) == CHOOSE a \in S : \A b \in S : a <= b
SetMax(S) == CHOOSE a \in S : \A b \in S : a >= b

\* pd.cut(values, bins=np.linspace(lo, hi, n + 1), labels=False,
\* include_lowest=True): ValueError when the bin edges are not unique
CutRaises(lo, hi) == lo = hi

\* The bin (lo + j*(hi-lo)/n, lo + (j+1)*(hi-lo)/n] holding v, lo itself in bin 0
Cut(v, lo, hi, n) ==
    IF v = lo THEN 0
    ELSE SetMin({j \in 0 .. (n - 1) : n * (v - lo) <= (j + 1) * (hi - lo)})

Xs(circle_data) == {circle_data[i].x : i \in 1 .. Len(circle_data)}
Ys(circle_data) == {circle_data[i].y : i \in 1 .. Len(circle_data)}

DetectCirclesRaises(circle_data) ==
    /\ circle_data # <<>>
    /\ \/ CutRaises(SetMin(Xs(circle_data)), SetMax(Xs(circle_data)))
       \/ CutRaises(SetMin(Ys(circle_data)), SetMax(Ys(circle_data)))

\* Lines 129-130
Binned(circle_data) ==
    [i \in 1 .. Len(circle_data) |->
        [x |-> circle_data[i].x, y |-> circle_data[i].y, radius |-> circle_data[i].radius,
         col |-> Cut(circle_data[i].x, SetMin(Xs(circle_data)), SetMax(Xs(circle_data)), num_cols),
         row |-> Cut(circle_data[i].y, SetMin(Ys(circle_data)), SetMax(Ys(circle_data)), num_rows)]]

LexLess(a, b) ==
    \E i \in 1 .. Len(a) : a[i] < b[i] /\ \A j \in 1 .. (i - 1) : a[j] = b[j]

SortKeyByBins(c) == <<c.col, c.row>>

\* Line 133: the columns sort_values compares
SortKey(c) == <<c.col, c.row, c.y, c.x>>

\* sort_values: rows by ascending key, rows of equal keys in their order
SortValues(rows) ==
    LET before(j, i) == \/ LexLess(SortKey(rows[j]), SortKey(rows[i]))
                        \/ SortKey(rows[j]) = SortKey(rows[i]) /\ j < i
        place(i) == 1 + Cardinality({j \in 1 .. Len(rows) : before(j, i)})
    IN  [q \in 1 .. Len(rows) |-> rows[CHOOSE i \in 1 .. Len(rows) : place(i) = q]]

\* Lines 137-138: the label of a circle is its place in circles_sorted
Labelled(rows) ==
    [q \in 1 .. Len(rows) |->
        [x |-> rows[q].x, y |-> rows[q].y, radius |-> rows[q].radius,
         col |-> rows[q].col, row |-> rows[q].row, label |-> q]]

\* Lines 111-145: circles_sorted
detect_circles_in_image(circle_data) ==
    IF circle_data = <<>> THEN <<>>
    ELSE Labelled(SortValues(Binned(circle_data)))

\* analyzer.py 389-393: the padded square around each circle, inside the image
RoiOfCircle(c) ==
    <<<<Max(0, c.x - c.radius - pad), Max(0, c.y - c.radius - pad)>>,
      <<Min(ImageSize.w, c.x + c.radius + pad), Min(ImageSize.h, c.y + c.radius + pad)>>>>

\* What process_images measures in the ROIs of the batch item: a worm that
\* turns in the third frame, its centroid (row, col) in the middle row of
\* the crop and 17 columns right of the middle column, or no worm at all
Contents == {"worms", "nothing"}

MeasuredIn(rect, f, contents) ==
    IF contents = "nothing" THEN NoBlob
    ELSE [area |-> 100,
          centroid |-> <<RectHeight(rect) \div 2, RectWidth(rect) \div 2 + 17>>,
          ecc |-> IF f = 2 THEN 300 ELSE 900]

Measured(rc, contents) ==
    [k \in 0 .. (Len(rc) - 1) |->
        [f \in 0 .. (MaxSignalFrames - 1) |-> MeasuredIn(rc[k + 1], f, contents)]]

CirclesInit ==
    /\ BatchIdle
    /\ caller = "batch"
    /\ roi_coords = <<>>
    /\ stop_processing = FALSE
    /\ frames = <<>>
    /\ ignore_worm = <<>>
    /\ workers = 0
    /\ task = <<>>
    /\ finished = {}
    /\ waiter = <<>>
    /\ yielded = <<>>
    /\ results = <<>>
    /\ writes = <<>>
    /\ progress = 0
    /\ ret = None
    /\ axes = None
    /\ assembled = None
    /\ computed_ignore_worm = None
    /\ bw_Area = None
    /\ bw_Centroid = None
    /\ bw_Eccentricity = None
    /\ params = DefaultParams
    /\ valid_turns = None
    /\ invalid_data = None
    /\ bw_Eccentricity_filtered = None
    /\ bw_Area_filtered = None
    /\ bw_Centroid_r_filtered = None
    /\ droplet_radius = None
    /\ groups = None
    /\ analysis = None
    /\ pc = "detect_circles"
    /\ \E circle_data \in HoughLists :
           call = [fn |-> "detect_circles_in_image", args |-> <<circle_data>>]
    /\ result = None
    /\ detector = None

\* analyzer.py 382-393: detect_circles_in_image and the ROI list built from it
DetectCircles ==
    /\ pc = "detect_circles"
    /\ IF DetectCirclesRaises(call.args[1])
       THEN /\ pc' = "raised"
            /\ UNCHANGED <<result, roi_coords, ignore_worm>>
       ELSE \E circles \in {detect_circles_in_image(call.args[1])} :
                /\ result' = Some(circles)
                /\ roi_coords' = [k \in 1 .. Len(circles) |-> RoiOfCircle(circles[k])]
                /\ ignore_worm' = [k \in 1 .. Len(circles) |-> "False"]
                /\ pc' = "process_images"
    /\ UNCHANGED <<caller, stop_processing, frames, workers, task, finished, waiter,
                   yielded, results, writes, progress, ret, axes, assembled,
                   computed_ignore_worm, signal_vars, call, detector, batch_vars>>

\* analyzer.py 433-440: process_images returns the three matrices
ProcessImagesReturns(contents) ==
    /\ pc = "process_images"
    /\ bw_Area' = AreaOf(Measured(roi_coords, contents))
    /\ bw_Centroid' = CentroidOf(Measured(roi_coords, contents))
    /\ bw_Eccentricity' = EccentricityOf(Measured(roi_coords, contents))
    /\ pc' = "process_signals"
    /\ UNCHANGED <<caller, roi_coords, stop_processing, image_vars, call_vars, batch_vars, params,
                   valid_turns, invalid_data, bw_Eccentricity_filtered, bw_Area_filtered,
                   bw_Centroid_r_filtered, droplet_radius, groups, analysis>>

\* analyzer.py 436-438: process_images returned (None, None, None)
ProcessImagesInterrupted ==
    /\ pc = "process_images"
    /\ pc' = "interrupted"
    /\ UNCHANGED <<caller, roi_coords, stop_processing, image_vars, call_vars, batch_vars, signal_vars>>

CirclesNext ==
    \/ DetectCircles
    \/ \E contents \in Contents : ProcessImagesReturns(contents)
    \/ ProcessImagesInterrupted
    \/ ProcessSignals
    \/ AnalyzeTurns(NoDialog)

SpecCircles == CirclesInit /\ [][CirclesNext]_vars

---------------------------------------------------------------------------
(* Claims about the scheduler *)

\* What the loop records for frame j: the frame_result of its task, or the
\* NaN tuples that stand for its exception
TaskValue(j) ==
    FutureResult(process_frame(j, frames, roi_coords, ignore_worm), roi_coords)

Raises(j) == process_frame(j, frames, roi_coords, ignore_worm).exc

RoiSet == Rois(roi_coords)

\* The classifier ran and marked ROI k inactive
MarkedInactive(k) == computed_ignore_worm # None /\ computed_ignore_worm[1][k]

\* Entry [k][j] of the three returned matrices is what task j measured
ReturnedCellIsTaskValue(k, j) ==
    /\ ret[1][k][j] = TaskValue(j)[k].area
    /\ ret[2][k][j] = TaskValue(j)[k].centroid
    /\ ret[3][k][j] = TaskValue(j)[k].ecc

ReturnedCellIsNaN(k, j) ==
    /\ ret[1][k][j] = NaN
    /\ ret[2][k][j] = <<NaN, NaN>>
    /\ ret[3][k][j] = NaN

AxesCellIsTaskValue(k, j) ==
    /\ axes[1][k][j] = MajorOf(TaskValue(j)[k].ellipse)
    /\ axes[2][k][j] = MinorOf(TaskValue(j)[k].ellipse)

AxesCellIsNaN(k, j) == axes[1][k][j] = NaN /\ axes[2][k][j] = NaN

\* The futures were not handed over in frame order
OutOfOrder == \E a, b \in 1 .. Len(yielded) : a < b /\ yielded[a] > yielded[b]

\* C1 as stated: on a successful return, column j of the returned area,
\* centroid and eccentricity matrices holds the result of the task of frame
\* j, whatever the completion order.
C1_ColumnHoldsTaskResult ==
    pc = "ret275" =>
        \A k \in RoiSet, j \in AllFrames : ReturnedCellIsTaskValue(k, j)

\* C1 amended: on a successful return, column j of the returned matrices
\* holds the result of the task of frame j in the rows of the ROIs the
\* inactivity classifier did not mark inactive and NaN in the rows it
\* marked, whatever the completion order.
C1_ColumnHoldsTaskResultUnlessInactive ==
    pc = "ret275" =>
        \A k \in RoiSet, j \in AllFrames :
            IF MarkedInactive(k) THEN ReturnedCellIsNaN(k, j)
            ELSE ReturnedCellIsTaskValue(k, j)

C1_Witness ==
    /\ pc = "ret275"
    /\ OutOfOrder
    /\ \E k \in RoiSet, j \in AllFrames : ret[1][k][j] # NaN

\* C2 as stated: the values returned on cancellation, on a pool failure and
\* on success are pairwise different, so each return statement can be told
\* from the other two by the value returned.
C2_OutcomesPairwiseDifferent ==
    /\ pc = "ret185" => ret # PoolErrorOutcome
    /\ pc = "ret199" => ret # AbortedOutcome
    /\ pc = "ret275" => (ret # AbortedOutcome /\ ret # PoolErrorOutcome)

\* C3 as stated: a stop flag set at any moment between submission and the
\* return makes process_images return the aborted outcome, never the
\* completed matrices.
C3_StopFlagAlwaysAborts ==
    pc = "ret275" => ~stop_processing

C5_NoStartAfterStopObserved ==
    [][pc = "ret185" =>
         \A j \in Queued : task'[j] = "queued"]_vars

\* C6: on a successful return every ROI has one entry per frame, indexed
\* 0 .. numframes-1, and every slot of results was assigned exactly once,
\* with the result of its own frame's task.
C6_EverySlotWrittenOnce ==
    pc = "ret275" =>
        /\ \A k \in RoiSet, m \in 1 .. 3 : DOMAIN ret[m][k] = AllFrames
        /\ \A k \in RoiSet, m \in 1 .. 2 : DOMAIN axes[m][k] = AllFrames
        /\ \A j \in AllFrames : writes[j] = 1 /\ results[j] = Some(TaskValue(j))

C6_Witness ==
    /\ pc = "ret275"
    /\ Len(frames) >= 2
    /\ yielded[1] # 0
    /\ \A j \in AllFrames : writes[j] = 1

\* C7 as stated: the inactivity classifier runs exactly when no ROI is
\* flagged ignored, whichever caller built the flags.
C7_ClassifierRunsIffNothingIgnored ==
    pc = "ret275" =>
        ((computed_ignore_worm # None) <=>
             \A k \in RoiSet : ~Truthy(At(ignore_worm, k)))

\* C8: when the classifier runs, every ROI it marks inactive is NaN in area,
\* centroid, eccentricity and both axes at every frame, and every other ROI
\* keeps the measurements it had after assembly.
C8_InactiveRowsSuppressed ==
    (pc = "ret275" /\ computed_ignore_worm # None) =>
        \A k \in RoiSet :
            IF computed_ignore_worm[1][k]
            THEN \A j \in AllFrames : ReturnedCellIsNaN(k, j) /\ AxesCellIsNaN(k, j)
            ELSE /\ ret[1][k] = assembled.area[k]
                 /\ ret[2][k] = assembled.centroid[k]
                 /\ ret[3][k] = assembled.ecc[k]
                 /\ axes[1][k] = assembled.major[k]
                 /\ axes[2][k] = assembled.minor[k]

C8_Witness ==
    /\ pc = "ret275"
    /\ computed_ignore_worm # None
    /\ \E k \in RoiSet :
          /\ computed_ignore_worm[1][k]
          /\ \E j \in AllFrames : assembled.area[k][j] # NaN
    /\ \E k \in RoiSet :
          /\ ~computed_ignore_worm[1][k]
          /\ \E j \in AllFrames : ret[1][k][j] # NaN

---------------------------------------------------------------------------
(* Claims about the signal stage *)

ProcessSignalsReturned == pc \in {"analyze_turns", "returned", "analyzed"}
Analyzed == pc = "analyzed" /\ groups # None

\* The ROI's measurements are entirely NaN
EntirelyNaN(k) == Skipped(bw_Eccentricity[k], bw_Centroid[k], bw_Area[k])
OtherMembers(members) == {k \in members : ~EntirelyNaN(k)}

\* C9: an ROI whose measurements are entirely NaN adds no turn to the
\* per-phase turn counts of its group and no frame to its per-phase
\* valid-frame denominators, so the group's turn rates and choice index are
\* those of its other members.
C9_EntirelyNaNRoiAddsNothingToItsGroup ==
    Analyzed =>
        \A g \in 1 .. Len(groups) :
            LET members == MembersInRange(groups[g], Len(roi_coords))
                others == OtherMembers(members)
                alone == GroupStatistics(valid_turns, invalid_data, others)
            IN  (others # {} /\ others # members) =>
                    /\ \A phase \in {1, 2} :
                          /\ SumTurns(valid_turns, members, phase)
                                = SumTurns(valid_turns, others, phase)
                          /\ ValidCount(invalid_data, members, phase)
                                = ValidCount(invalid_data, others, phase)
                    /\ analysis.turn_rate_grouped[g] = alone.turn_rate
                    /\ analysis.choice_index_grouped[g] = alone.choice_index

\* The frames at which detect_peaks on the smoothed eccentricity of ROI k
\* reports a minimum whose value is below peak_det_abs_threshold
MinimaBelowThreshold(k) ==
    LET mintab == detect_peaks(bw_Eccentricity_filtered[k], params.peak_det_threshold).mintab
    IN  {f \in DOMAIN bw_Eccentricity_filtered[k] :
            \E i \in 1 .. Len(mintab) :
                /\ mintab[i][1] = f
                /\ FLt(mintab[i][2], params.peak_det_abs_threshold)}

\* C10: for every ROI that is not skipped and every frame f, valid_turns[f]
\* is true exactly when detect_peaks on the smoothed eccentricity, with delta
\* = peak_det_threshold, reports a minimum at f below peak_det_abs_threshold
\* and invalid_data[f] is false.
C10_ValidTurnIffMinimumBelowThresholdAndNotInvalid ==
    ProcessSignalsReturned =>
        \A k \in DOMAIN valid_turns :
            ~EntirelyNaN(k) =>
                \A minima \in {MinimaBelowThreshold(k)} :
                    \A f \in DOMAIN valid_turns[k] :
                        valid_turns[k][f] <=> (f \in minima /\ ~invalid_data[k][f])

\* One ROI has a valid turn at one frame and, at another, a minimum below
\* the threshold that the validity mask rejects
C10_Witness ==
    /\ ProcessSignalsReturned
    /\ \E k \in DOMAIN valid_turns :
          /\ ~EntirelyNaN(k)
          /\ \E f \in DOMAIN valid_turns[k], g \in MinimaBelowThreshold(k) :
                /\ valid_turns[k][f]
                /\ invalid_data[k][g]
                /\ ~valid_turns[k][g]

\* C11: for every ROI that is not skipped and every frame, the frame is
\* marked invalid exactly when its smoothed centroid radius exceeds
\* Centroid_r_threshold or its smoothed area is below area_threshold times
\* the median of the non-NaN raw area of the ROI
AreaFloor(k) == FMul(params.area_threshold, nanmedian(bw_Area[k]))
CentroidFar(k, f) == FGt(bw_Centroid_r_filtered[k][f], params.Centroid_r_threshold)
AreaSmall(k, f, floor) == FLt(bw_Area_filtered[k][f], floor)

C11_InvalidIffCentroidFarOrAreaSmall ==
    ProcessSignalsReturned =>
        \A k \in DOMAIN invalid_data :
            ~EntirelyNaN(k) =>
                \A floor \in {AreaFloor(k)} :
                    \A f \in DOMAIN invalid_data[k] :
                        invalid_data[k][f] <=> (CentroidFar(k, f) \/ AreaSmall(k, f, floor))

\* An ROI with a frame of each case: centroid alone, area alone, both, neither
C11_Witness ==
    /\ ProcessSignalsReturned
    /\ \E k \in DOMAIN invalid_data :
          /\ ~EntirelyNaN(k)
          /\ \E floor \in {AreaFloor(k)} :
                LET F == DOMAIN invalid_data[k]
                IN  /\ \E f \in F : CentroidFar(k, f) /\ ~AreaSmall(k, f, floor) /\ invalid_data[k][f]
                    /\ \E f \in F : ~CentroidFar(k, f) /\ AreaSmall(k, f, floor) /\ invalid_data[k][f]
                    /\ \E f \in F : CentroidFar(k, f) /\ AreaSmall(k, f, floor) /\ invalid_data[k][f]
                    /\ \E f \in F : ~CentroidFar(k, f) /\ ~AreaSmall(k, f, floor) /\ ~invalid_data[k][f]

---------------------------------------------------------------------------
(* Claims about detect_peaks *)

PositiveDelta == FGt(DetectDelta, Zero)

\* C12: for every series and every delta > 0 the events detect_peaks
\* emits, maxima and minima together in emission order, have strictly
\* increasing frame indices
C12_EventIndicesStrictlyIncrease ==
    PositiveDelta =>
        \A e \in 1 .. (Len(detector.emitted) - 1) :
            detector.emitted[e].index < detector.emitted[e + 1].index

C12_Witness ==
    /\ pc = "done"
    /\ PositiveDelta
    /\ Len(detector.emitted) >= 3
    /\ Len(result[1].maxtab) = 2
    /\ Len(result[1].mintab) = 1

\* C13: detect_peaks rejects a delta that is not strictly positive with an
\* error: such a call emits no event and returns no peak lists
C13_NonPositiveDeltaRejected ==
    ~PositiveDelta => (detector.emitted = <<>> /\ result = None)

\* The series rises (weakly) to its largest sample and falls (weakly) from
\* there until its end
RisesThenFalls(v) ==
    /\ Size(v) >= 1
    /\ \A i \in DOMAIN v : ~isnan(v[i])
    /\ \E p \in DOMAIN v :
          /\ \A j \in 0 .. (p - 1) : ~FGt(v[j], v[j + 1])
          /\ \A j \in p .. (Size(v) - 2) : ~FLt(v[j], v[j + 1])

PeakValue(v) == CHOOSE x \in {v[i] : i \in DOMAIN v} : \A i \in DOMAIN v : ~FGt(v[i], x)
FirstIndexOf(v, x) == CHOOSE i \in DOMAIN v : v[i] = x /\ \A j \in 0 .. (i - 1) : v[j] # x
TotalFall(v) == FSub(PeakValue(v), v[Size(v) - 1])

\* C14: for a series that rises to a single peak and then falls until its
\* end, falling by more than delta in total, detect_peaks returns exactly
\* one maximum, at the first sample holding the peak value, and no minimum
C14_SinglePeakGivesOneMaximumAndNoMinimum ==
    (/\ pc = "done"
     /\ PositiveDelta
     /\ RisesThenFalls(DetectV)
     /\ FGt(TotalFall(DetectV), DetectDelta))
        => result = Some([maxtab |-> <<<<FirstIndexOf(DetectV, PeakValue(DetectV)),
                                         PeakValue(DetectV)>>>>,
                          mintab |-> <<>>])

\* The triangle wave of 2 * RampSamples samples with delta = 0.1
C14_Witness ==
    /\ pc = "done"
    /\ DetectV = Triangle
    /\ DetectDelta = TriangleDelta
    /\ result = Some([maxtab |-> <<<<RampSamples - 1, <<1, 1>>>>>>, mintab |-> <<>>])

---------------------------------------------------------------------------
(* Claims about moving_average *)

ConstantSeries(data) == \A i, j \in DOMAIN data : data[i] = data[j]

---------------------------------------------------------------------------
(* Claims about analyze_turns *)

Rate(g, phase) == analysis.turn_rate_grouped[g][phase]
One == <<1, 1>>

\* C16: the choice index of a group is (r1 - r2)/(r1 + r2) when the sum of
\* its two phase rates is positive and NaN when the sum is 0 or a rate is
\* NaN; equal positive rates give 0, a positive rate against 0 gives 1, two
\* zero rates give NaN
C16_GroupChoiceIndexOfRates ==
    Analyzed =>
        \A g \in 1 .. Len(groups) :
            LET r1 == Rate(g, 1)
                r2 == Rate(g, 2)
                index == analysis.choice_index_grouped[g]
            IN  /\ (isnan(r1) \/ isnan(r2) \/ FAdd(r1, r2) = Zero) => isnan(index)
                /\ FGt(FAdd(r1, r2), Zero) => index = FDiv(FSub(r1, r2), FAdd(r1, r2))
                /\ (r1 = r2 /\ FGt(r1, Zero)) => index = Zero
                /\ (FGt(r1, Zero) /\ r2 = Zero) => index = One
                /\ (r1 = Zero /\ r2 = Zero) => isnan(index)

\* Four groups, one of each case
C16_Witness ==
    /\ Analyzed
    /\ Len(groups) = 4
    /\ Rate(1, 1) = Rate(1, 2) /\ FGt(Rate(1, 1), Zero)
    /\ analysis.choice_index_grouped[1] = Zero
    /\ FGt(Rate(2, 1), Zero) /\ Rate(2, 2) = Zero
    /\ analysis.choice_index_grouped[2] = One
    /\ Rate(3, 1) = Zero /\ Rate(3, 2) = Zero
    /\ isnan(analysis.choice_index_grouped[3])
    /\ isnan(Rate(4, 1)) /\ isnan(Rate(4, 2))
    /\ isnan(analysis.choice_index_grouped[4])

InUnitRange(x) == ~FLt(x, FNeg(One)) /\ ~FGt(x, One) /\ ~IsInf(x)

\* C17: every choice index of analyze_turns that is not NaN, of a group or
\* of a single ROI, lies in the closed range [-1, 1]
C17_ChoiceIndexWithinUnitRange ==
    Analyzed =>
        /\ \A g \in 1 .. Len(groups) :
              LET index == analysis.choice_index_grouped[g]
              IN  ~isnan(index) => InUnitRange(index)
        /\ \A roi \in DOMAIN analysis.choice_index_individual :
              LET index == analysis.choice_index_individual[roi]
              IN  ~isnan(index) => InUnitRange(index)

\* An index at the end of the range and negative ones strictly inside it
C17_Witness ==
    /\ Analyzed
    /\ analysis.choice_index_individual[0] = <<-1, 3>>
    /\ analysis.choice_index_individual[3] = One
    /\ \E g \in 1 .. Len(groups) :
          LET index == analysis.choice_index_grouped[g]
          IN  ~isnan(index) /\ FLt(index, Zero) /\ FGt(index, FNeg(One))

---------------------------------------------------------------------------
(* Claims about detect_circles_in_image and the batch item *)

CirclesDetected == pc \notin {"detect_circles", "raised"} \/ (pc = "raised" /\ result # None)

\* The orders in which the transform may list the same detections
Reorderings(circle_data) ==
    {other \in HoughLists :
        /\ Len(other) = Len(circle_data)
        /\ {other[i] : i \in 1 .. Len(other)} = {circle_data[i] : i \in 1 .. Len(circle_data)}}

\* C18: the detections are labelled 1..N, each label once, in ascending
\* lexicographic order of (column bin, row bin, y, x), and the labels do not
\* depend on the order in which the Hough transform listed the detections
C18_LabelsFollowSortKeyWhateverTheOrder ==
    CirclesDetected =>
        \A circles \in {result[1]} :
            /\ Len(circles) = Len(call.args[1])
            /\ \A q \in 1 .. Len(circles) : circles[q].label = q
            /\ \A q \in 1 .. (Len(circles) - 1) :
                  LexLess(SortKey(circles[q]), SortKey(circles[q + 1]))
            /\ \A i \in 1 .. Len(call.args[1]) :
                  \E q \in 1 .. Len(circles) :
                      /\ circles[q].x = call.args[1][i].x
                      /\ circles[q].y = call.args[1][i].y
                      /\ circles[q].radius = call.args[1][i].radius
            /\ \A other \in Reorderings(call.args[1]) :
                  detect_circles_in_image(other) = circles

\* Three detections, two of them in the same column and row bin, listed in
\* an order that is not the label order
C18_Witness ==
    /\ CirclesDetected
    /\ Len(result[1]) = MaxCircles
    /\ \E q \in 1 .. (MaxCircles - 1) :
          /\ result[1][q].col = result[1][q + 1].col
          /\ result[1][q].row = result[1][q + 1].row
    /\ call.args[1][1].x # result[1][1].x

\* C19: when the Hough transform finds no circle, detect_circles_in_image
\* returns the empty list and the batch item (process_images,
\* process_signals and analyze_turns with zero ROIs) completes without
\* raising an exception
C19_NoCircleBatchItemCompletes ==
    call.args[1] = <<>> =>
        /\ pc # "raised"
        /\ (pc # "detect_circles" => result = Some(<<>>))

---------------------------------------------------------------------------
(* Claims about the steps of detect_peaks *)

\* The samples seen since the last mode switch (or since the start), the
\* current one included, that are numbers
SeenSinceSwitch == {j \in detector.since .. detector.i : ~isnan(DetectV[j])}

LargestSeen ==
    CHOOSE x \in {DetectV[j] : j \in SeenSinceSwitch} :
        \A j \in SeenSinceSwitch : ~FGt(DetectV[j], x)
SmallestSeen ==
    CHOOSE x \in {DetectV[j] : j \in SeenSinceSwitch} :
        \A j \in SeenSinceSwitch : ~FLt(DetectV[j], x)
FirstSeen(x) == SetMin({j \in SeenSinceSwitch : DetectV[j] = x})

FallsBelowLargest ==
    /\ detector.st.look_for_max
    /\ SeenSinceSwitch # {}
    /\ FLt(DetectV[detector.i], FSub(LargestSeen, DetectDelta))
RisesAboveSmallest ==
    /\ ~detector.st.look_for_max
    /\ SeenSinceSwitch # {}
    /\ FGt(DetectV[detector.i], FAdd(SmallestSeen, DetectDelta))

Emits(kind) ==
    /\ Len(detector'.emitted) = Len(detector.emitted) + 1
    /\ \A e \in 1 .. Len(detector.emitted) : detector'.emitted[e] = detector.emitted[e]
    /\ Last(detector'.emitted).kind = kind
EmitsNothing == detector'.emitted = detector.emitted

EventsOfKind(emitted, kind) ==
    LET chosen == SelectSeq(emitted, LAMBDA e : e.kind = kind)
    IN  [q \in 1 .. Len(chosen) |-> <<chosen[q].index, chosen[q].value>>]

SampleStep == pc = "detect_peaks" /\ detector'.i = detector.i + 1
ReturnStep == pc = "detect_peaks" /\ pc' = "done"

\* C20: a maximum is emitted exactly when, while a maximum is sought, the
\* current sample is more than delta below the largest sample seen since
\* the last mode switch; the event carries that value and the first index
\* holding it, and a minimum is then sought from the current sample on;
\* minima symmetrically; an extremum still tracked at the end is not emitted
C20_EventsFollowTheHysteresisRule ==
    [][/\ SampleStep =>
            /\ Emits("max") <=> FallsBelowLargest
            /\ Emits("min") <=> RisesAboveSmallest
            /\ (~FallsBelowLargest /\ ~RisesAboveSmallest) =>
                  /\ EmitsNothing
                  /\ detector'.st.look_for_max = detector.st.look_for_max
                  /\ detector'.since = detector.since
            /\ FallsBelowLargest =>
                  /\ Last(detector'.emitted).value = LargestSeen
                  /\ Last(detector'.emitted).index = FirstSeen(LargestSeen)
                  /\ ~detector'.st.look_for_max
                  /\ detector'.since = detector.i
            /\ RisesAboveSmallest =>
                  /\ Last(detector'.emitted).value = SmallestSeen
                  /\ Last(detector'.emitted).index = FirstSeen(SmallestSeen)
                  /\ detector'.st.look_for_max
                  /\ detector'.since = detector.i
       /\ ReturnStep =>
            /\ EmitsNothing
            /\ result'[1].maxtab = EventsOfKind(detector.emitted, "max")
            /\ result'[1].mintab = EventsOfKind(detector.emitted, "min")]_vars

\* A maximum on a plateau, reported at its first sample, then a minimum,
\* and a last extremum that the return leaves out
C20_Witness ==
    /\ pc = "done"
    /\ Len(detector.emitted) = 2
    /\ detector.emitted[1].kind = "max"
    /\ DetectV[detector.emitted[1].index + 1] = detector.emitted[1].value
    /\ detector.emitted[2].kind = "min"
    /\ detector.st.look_for_max
    /\ detector.st.mx # FNeg(inf)
    /\ Len(result[1].maxtab) = 1

---------------------------------------------------------------------------
(* Claims about the inactivity classifier *)

EveryEccentricityNaN(ecc_vals) == \A j \in DOMAIN ecc_vals : ecc_vals[j] = NaN

\* The absolute difference of samples i and i + 1 is a number below 0.015
SmallDifference(ecc_vals, i) ==
    /\ ecc_vals[i] # NaN
    /\ ecc_vals[i + 1] # NaN
    /\ ecc_vals[i + 1] - ecc_vals[i] < EccThreshold
    /\ ecc_vals[i] - ecc_vals[i + 1] < EccThreshold

\* InactiveRun consecutive differences are small
HasStableRun(ecc_vals) ==
    \E start \in 0 .. (Size(ecc_vals) - 1 - InactiveRun) :
        \A i \in start .. (start + InactiveRun - 1) : SmallDifference(ecc_vals, i)

\* C21: when the classifier runs, an ROI is classified inactive exactly
\* when all its eccentricity samples are NaN or its consecutive absolute
\* differences hold a run of at least 100 values each below 0.015, a
\* difference with a NaN sample breaking the run
C21_InactiveIffAllNaNOrStableRun ==
    computed_ignore_worm # None =>
        \A k \in RoiSet :
            computed_ignore_worm[1][k] <=>
                \/ EveryEccentricityNaN(assembled.ecc[k])
                \/ HasStableRun(assembled.ecc[k])

\* An ROI inactive by a run of exactly InactiveRun differences after a NaN
\* sample, next to an ROI that stays active
C21_Witness ==
    /\ computed_ignore_worm # None
    /\ Size(assembled.ecc[0]) = InactiveRun + 2
    /\ assembled.ecc[0][0] = NaN
    /\ computed_ignore_worm[1][0]
    /\ ~EveryEccentricityNaN(assembled.ecc[0])
    /\ \E k \in RoiSet : ~computed_ignore_worm[1][k] /\ ~EveryEccentricityNaN(assembled.ecc[k])

---------------------------------------------------------------------------
(* Claims about the normalized centroid radius *)

\* The distance of a centroid (row, col) from the point (row = height/2,
\* col = width/2) of the ROI, over (width + height)/4, frame by frame
GeometricRadius(centroid, rect) ==
    Array([f \in DOMAIN centroid |->
        LET rows == FSub(ToFloat(centroid[f][1]), Float(RectHeight(rect), 2))
            cols == FSub(ToFloat(centroid[f][2]), Float(RectWidth(rect), 2))
        IN  FDiv(FSqrt(FAdd(FMul(rows, rows), FMul(cols, cols))),
                 Float(RectWidth(rect) + RectHeight(rect), 4))])

Processed(k) == ~Skipped(bw_Eccentricity[k], bw_Centroid[k], bw_Area[k])

\* C22: for every ROI that is not skipped, the normalized centroid radius
\* that process_signals smooths is, in every frame, the distance between
\* the raw centroid (row, col) and the geometric centre of the ROI
\* (row = height/2, col = width/2) divided by (width + height)/4, for
\* ROIs that are not square too
C22_CentroidRadiusFromGeometricCentre ==
    bw_Centroid_r_filtered # None =>
        \A k \in DOMAIN bw_Centroid :
            Processed(k) =>
                bw_Centroid_r_filtered[k] =
                    moving_average(GeometricRadius(bw_Centroid[k], At(roi_coords, k)),
                                   params.Centroid_filsize)

---------------------------------------------------------------------------
(* Claims about the window of moving_average *)

\* The indices of the window of size w around i in a series of length n
WindowIndices(i, w, n) ==
    {j \in 0 .. (n - 1) :
        /\ j >= i - (w - 1) \div 2
        /\ j <= i + (w - 1) \div 2 + (IF w % 2 = 0 THEN 1 ELSE 0)}

WindowFits(i, w, n) ==
    /\ i - (w - 1) \div 2 >= 0
    /\ i + (w - 1) \div 2 + (IF w % 2 = 0 THEN 1 ELSE 0) <= n - 1

RECURSIVE SumOver(_, _)
SumOver(data, S) ==
    IF S = {} THEN Zero
    ELSE LET j == CHOOSE j \in S : TRUE
         IN  FAdd(data[j], SumOver(data, S \ {j}))

MeanOver(data, S) == FDiv(SumOver(data, S), <<Cardinality(S), 1>>)

\* C23: for a window w >= 1 the value moving_average returns at index i of a
\* series of length n is the mean of the samples with indices in
\* [i - (w-1)//2, i + (w-1)//2] for odd w and [i - (w-1)//2, i + (w-1)//2 + 1]
\* for even w, intersected with [0, n-1]: exactly w samples where the
\* window fits, fewer at the boundaries, and an output of length n
C23_WindowOfMovingAverage ==
    pc = "done" =>
        /\ DOMAIN result[1] = DOMAIN SmoothData
        /\ \A i \in DOMAIN SmoothData :
              LET W == WindowIndices(i, SmoothWindow, Size(SmoothData))
              IN  /\ W # {}
                  /\ result[1][i] = MeanOver(SmoothData, W)
                  /\ WindowFits(i, SmoothWindow, Size(SmoothData))
                        => Cardinality(W) = SmoothWindow
                  /\ ~WindowFits(i, SmoothWindow, Size(SmoothData))
                        => Cardinality(W) < SmoothWindow

\* An even window that fits at one index and is cut at both ends of the
\* series at others, over samples that differ
C23_Witness ==
    /\ pc = "done"
    /\ SmoothWindow = 4
    /\ Size(SmoothData) = 4
    /\ WindowFits(1, SmoothWindow, Size(SmoothData))
    /\ ~WindowFits(0, SmoothWindow, Size(SmoothData))
    /\ ~WindowFits(2, SmoothWindow, Size(SmoothData))
    /\ SmoothData = (0 :> <<0, 1>> @@ 1 :> <<1, 1>> @@ 2 :> <<2, 1>> @@ 3 :> <<2, 1>>)
    /\ result[1] = (0 :> <<1, 1>> @@ 1 :> <<5, 4>> @@ 2 :> <<5, 3>> @@ 3 :> <<2, 1>>)

---------------------------------------------------------------------------
(* Claims about the smoothing windows of process_signals *)

NonPositiveWindow ==
    \/ params.Eccentricity_filsize < 1
    \/ params.Area_filsize < 1
    \/ params.Centroid_filsize < 1

\* C24: process_signals called with a smoothing window below 1 fails with
\* an error and returns nothing, whatever the ROI data, also when every
\* ROI is entirely NaN and would be skipped
C24_NonPositiveWindowFails ==
    (caller = "direct" /\ NonPositiveWindow /\ pc # "process_signals")
        => pc = "raised" /\ valid_turns = None

---------------------------------------------------------------------------
(* Claims about the tuples of process_frame *)

\* process_frame returned for frame j and its result has been recorded
Returned(j) == results[j] # None /\ At(frames, j).kind # "raise"

Excluded(k) == At(ignore_worm, k) \in {"True", "1"} \/ At(roi_coords, k) = None

\* C25: process_frame returns one measurement tuple per ROI, in ROI
\* order, and the tuple of every ROI whose ignore flag is set or whose
\* rectangle is None is the NaN tuple, whatever the frame shows and
\* whatever the other ROIs are
C25_OneTuplePerRoiAndNaNForExcluded ==
    \A j \in DOMAIN results :
        Returned(j) =>
            /\ DOMAIN results[j][1] = 0 .. (Len(roi_coords) - 1)
            /\ \A k \in DOMAIN results[j][1] :
                  Excluded(k) => results[j][1][k] = NaNTuple

\* A frame that shows a blob in every ROI, with the first ROI excluded and
\* the last one measured
C25_Witness ==
    \E j \in DOMAIN results :
        /\ Returned(j)
        /\ At(frames, j).kind = "blob"
        /\ Excluded(0)
        /\ ~Excluded(NumRoi - 1)
        /\ results[j][1][0] = NaNTuple
        /\ results[j][1][NumRoi - 1] = Shows(At(frames, j), j, NumRoi - 1)
        /\ results[j][1][NumRoi - 1] # NaNTuple

---------------------------------------------------------------------------
(* Claims about the stimulus phases *)

\* The half period of the configuration, 300 when it has none
ConfiguredHalfPeriod ==
    IF "half_period" \in DOMAIN params THEN params.half_period ELSE 300

ConfiguredPhase(f) == IF (f \div ConfiguredHalfPeriod) % 2 = 0 THEN 1 ELSE 2

\* C26: analyze_turns assigns frame f to phase 1 when
\* (f // half_period) % 2 = 0 and to phase 2 otherwise, half_period being
\* that of the configuration (300 by default), so that every valid turn
\* is counted in the per-phase count of the phase of its frame and in no
\* other
C26_PhasesFollowConfiguredHalfPeriod ==
    Analyzed =>
        \A roi \in DOMAIN valid_turns : \A phase \in {1, 2} :
            analysis.num_turns_all[roi][phase] =
                Cardinality({f \in DOMAIN valid_turns[roi] :
                                valid_turns[roi][f] /\ ConfiguredPhase(f) = phase})

---------------------------------------------------------------------------
(* Claims about the turn rates of the groups *)

\* The members of group g that are ROI indices
RoisOfGroup(g) == {k \in groups[g] : k \in DOMAIN valid_turns}

PhasePairs(g, phase) ==
    {kf \in RoisOfGroup(g) \X DOMAIN valid_turns[0] : InPhase(kf[2], phase)}
TurnPairs(g, phase) == {kf \in PhasePairs(g, phase) : valid_turns[kf[1]][kf[2]]}
ValidPairs(g, phase) == {kf \in PhasePairs(g, phase) : ~invalid_data[kf[1]][kf[2]]}

\* C27: the turn rate of a group in a phase is the number of valid turns
\* of its member ROIs in the phase divided by the number of (member ROI,
\* frame) pairs of the phase whose invalid_data flag is false, NaN when
\* that number is 0; a group without a member inside the ROI range has
\* NaN rates and a NaN choice index
C27_GroupRateOverValidPairs ==
    Analyzed =>
        \A g \in 1 .. Len(groups) :
            /\ \A phase \in {1, 2} :
                  \A valid \in {Cardinality(ValidPairs(g, phase))} :
                      Rate(g, phase) =
                          IF valid = 0 THEN nan
                          ELSE Float(Cardinality(TurnPairs(g, phase)), valid)
            /\ RoisOfGroup(g) = {} =>
                  /\ isnan(Rate(g, 1))
                  /\ isnan(Rate(g, 2))
                  /\ isnan(analysis.choice_index_grouped[g])

\* A group with turns, valid and invalid frames in the first phase and no
\* valid frame in the second, next to a group outside the ROI range
C27_Witness ==
    /\ Analyzed
    /\ \E g \in 1 .. Len(groups) :
          /\ TurnPairs(g, 1) # {}
          /\ ValidPairs(g, 1) # PhasePairs(g, 1)
          /\ Cardinality(ValidPairs(g, 1)) > Cardinality(TurnPairs(g, 1))
          /\ Rate(g, 1) = Float(Cardinality(TurnPairs(g, 1)), Cardinality(ValidPairs(g, 1)))
          /\ PhasePairs(g, 2) # {}
          /\ ValidPairs(g, 2) = {}
          /\ isnan(Rate(g, 2))
    /\ \E g \in 1 .. Len(groups) :
          /\ groups[g] # {}
          /\ RoisOfGroup(g) = {}
          /\ isnan(Rate(g, 1))

---------------------------------------------------------------------------
(* Claims about the grid bins of the detected circles *)

DetectedList == call.args[1]

\* C28: for every non-empty list of detections, a single detection and
\* detections that share their x or their y included,
\* detect_circles_in_image completes and gives every detection a column
\* index in 0..3 and a row index in 0..2, the smallest x and y in bin 0 and
\* the largest in the last bin
C28_EveryNonEmptyListIsBinned ==
    (call.fn = "detect_circles_in_image" /\ DetectedList # <<>> /\ pc # "detect_circles")
        => /\ result # None
           /\ Len(result[1]) = Len(DetectedList)
           /\ \A q \in 1 .. Len(result[1]) :
                 /\ result[1][q].col \in 0 .. (num_cols - 1)
                 /\ result[1][q].row \in 0 .. (num_rows - 1)
                 /\ result[1][q].x = SetMin(Xs(DetectedList)) => result[1][q].col = 0
                 /\ result[1][q].y = SetMin(Ys(DetectedList)) => result[1][q].row = 0
                 /\ result[1][q].x = SetMax(Xs(DetectedList))
                       => result[1][q].col = num_cols - 1
                 /\ result[1][q].y = SetMax(Ys(DetectedList))
                       => result[1][q].row = num_rows - 1

---------------------------------------------------------------------------
(* Claims about the order of the events of detect_peaks *)

KindAt(e) == IF e % 2 = 1 THEN "max" ELSE "min"

DifferByMoreThan(a, b, delta) == FGt(FSub(a, b), delta) \/ FGt(FSub(b, a), delta)

\* C29: for every series and every delta > 0 the events detect_peaks emits
\* alternate in kind in emission order, the first being a maximum, so that
\* the number of maxima minus the number of minima is 0 or 1, and the
\* values of two consecutive events differ by more than delta
C29_EventsAlternateAndDifferByMoreThanDelta ==
    PositiveDelta =>
        /\ \A e \in 1 .. Len(detector.emitted) : detector.emitted[e].kind = KindAt(e)
        /\ \A e \in 1 .. (Len(detector.emitted) - 1) :
              DifferByMoreThan(detector.emitted[e].value, detector.emitted[e + 1].value,
                               DetectDelta)
        /\ pc = "done" =>
              /\ Len(result[1].maxtab) + Len(result[1].mintab) = Len(detector.emitted)
              /\ Len(result[1].maxtab) - Len(result[1].mintab) \in {0, 1}

\* A maximum, a minimum and a second maximum, 2 apart under a delta of 1.5
C29_Witness ==
    /\ pc = "done"
    /\ DetectDelta = <<3, 2>>
    /\ Len(detector.emitted) = 3
    /\ detector.emitted[1] = Event("max", <<0, <<2, 1>>>>)
    /\ detector.emitted[2] = Event("min", <<1, <<0, 1>>>>)
    /\ detector.emitted[3] = Event("max", <<2, <<2, 1>>>>)
    /\ Len(result[1].maxtab) = 2
    /\ Len(result[1].mintab) = 1

---------------------------------------------------------------------------
(* DropletAssayAnalyzer.run_batch_analysis: the loop over the directories *)

MaxDirectories == 11     \* directories of a batch
FailuresShown == 10      \* failures the summary lists one by one

\* collect_analysis_dirs returns distinct directories, sorted; the batch
\* runs only when there is at least one
DirectoryLists == {[q \in 1 .. n |-> q] : n \in 1 .. MaxDirectories}

\* str(e) of the exception process_single_batch_item raises in a directory
ErrorOf(d) == IF d % 2 = 1 THEN "ValueError" ELSE "TypeError"

\* Mutant: only the first failure is kept
RecordFirstFailure(list, d) ==
    IF list = <<>> THEN <<<<d, ErrorOf(d)>>>> ELSE list

\* Line 328: failures.append((directory, str(e)))
RecordFailure(list, d) == Append(list, <<d, ErrorOf(d)>>)

\* Lines 337-348: the message box; lines holds the failures it lists and
\* more the number it only counts
Summary(dirs, list) ==
    IF list # <<>>
    THEN [box |-> "showwarning",
          processed |-> Len(dirs),
          failures |-> Len(list),
          lines |-> SubSeq(list, 1, Min(FailuresShown, Len(list))),
          more |-> Max(0, Len(list) - FailuresShown)]
    ELSE [box |-> "showinfo", processed |-> Len(dirs), failures |-> 0,
          lines |-> <<>>, more |-> 0]

\* Lines 311-312, after the directories have been collected
BatchInit ==
    /\ caller = "batch"
    /\ roi_coords = <<>>
    /\ stop_processing = FALSE
    /\ frames = <<>>
    /\ ignore_worm = <<>>
    /\ workers = 0
    /\ task = <<>>
    /\ finished = {}
    /\ waiter = <<>>
    /\ yielded = <<>>
    /\ results = <<>>
    /\ writes = <<>>
    /\ progress = 0
    /\ ret = None
    /\ axes = None
    /\ assembled = None
    /\ computed_ignore_worm = None
    /\ bw_Area = None
    /\ bw_Centroid = None
    /\ bw_Eccentricity = None
    /\ params = DefaultParams
    /\ valid_turns = None
    /\ invalid_data = None
    /\ bw_Eccentricity_filtered = None
    /\ bw_Area_filtered = None
    /\ bw_Centroid_r_filtered = None
    /\ droplet_radius = None
    /\ groups = None
    /\ analysis = None
    /\ call = NoCall
    /\ result = None
    /\ detector = None
    /\ pc = "batch_loop"
    /\ all_dirs \in DirectoryLists
    /\ dir_index = 0
    /\ directory = None
    /\ failures = <<>>
    /\ var = 0
    /\ summary = None
    /\ started = <<>>
    /\ raised = {}

\* Lines 315-324: the next directory, when the stop flag is clear
StartDirectory ==
    /\ pc = "batch_loop"
    /\ dir_index < Len(all_dirs)
    /\ ~stop_processing
    /\ dir_index' = dir_index + 1
    /\ directory' = all_dirs[dir_index + 1]
    /\ started' = Append(started, all_dirs[dir_index + 1])
    /\ pc' = "batch_item"
    /\ UNCHANGED <<stage_vars, call_vars, all_dirs, failures, var, summary, raised>>

\* Lines 324 and 330-332: process_single_batch_item returns
ItemReturns ==
    /\ pc = "batch_item"
    /\ var' = dir_index
    /\ pc' = "batch_loop"
    /\ UNCHANGED <<stage_vars, call_vars, all_dirs, dir_index, directory, failures,
                   summary, started, raised>>

\* Lines 324-332: process_single_batch_item raises an Exception
ItemRaises ==
    /\ pc = "batch_item"
    /\ failures' = RecordFailure(failures, directory)
    /\ raised' = raised \cup {directory}
    /\ var' = dir_index
    /\ pc' = "batch_loop"
    /\ UNCHANGED <<stage_vars, call_vars, all_dirs, dir_index, directory, summary, started>>

\* Lines 353-361: the Cancel button, pressed while a directory is processed
\* (the loop handles events in progress.update() and inside the item)
CancelBatchProcessing ==
    /\ pc = "batch_item"
    /\ ~stop_processing
    /\ stop_processing' = TRUE
    /\ UNCHANGED <<caller, roi_coords, pc, image_vars, signal_vars, call_vars, batch_vars>>

\* Lines 316-317 and 334-348: the loop ends, by break or after the last
\* directory, and the summary is shown
ShowSummary ==
    /\ pc = "batch_loop"
    /\ stop_processing \/ dir_index = Len(all_dirs)
    /\ summary' = Some(Summary(all_dirs, failures))
    /\ pc' = "batch_done"
    /\ UNCHANGED <<stage_vars, call_vars, all_dirs, dir_index, directory, failures, var,
                   started, raised>>

BatchNext ==
    \/ StartDirectory
    \/ ItemReturns
    \/ ItemRaises
    \/ CancelBatchProcessing
    \/ ShowSummary

SpecBatch == BatchInit /\ [][BatchNext]_vars

---------------------------------------------------------------------------
(* Claims about run_batch_analysis *)

ElementsOf(list) == {list[q] : q \in 1 .. Len(list)}

\* The directories are started one at a time, in the order of the list
InListOrder ==
    /\ started = SubSeq(all_dirs, 1, dir_index)
    /\ pc = "batch_item" => directory = all_dirs[dir_index]

\* The failure list holds, in order, the directories that raised
FailuresRecorded ==
    /\ ElementsOf([q \in 1 .. Len(failures) |-> failures[q][1]]) = raised
    /\ Len(failures) = Cardinality(raised)
    /\ \A q \in 1 .. (Len(failures) - 1) : failures[q][1] < failures[q + 1][1]

\* Without a stop request every directory is started, whatever raised
FailuresDoNotStopTheBatch ==
    (pc = "batch_done" /\ ~stop_processing) => started = all_dirs

\* With the stop flag set no directory is started
NoStartOnceStopped == stop_processing => started' = started

\* The directories the summary lists
Listed == ElementsOf([q \in 1 .. Len(summary[1].lines) |-> summary[1].lines[q][1]])

\* The summary names the directories that raised, and no other
SummaryNamesTheFailures == summary # None => Listed = raised

\* The summary counts the directories that raised and names the first
\* FailuresShown of them
SummaryCountsTheFailures ==
    summary # None =>
        /\ summary[1].failures = Cardinality(raised)
        /\ Listed \subseteq raised
        /\ Cardinality(Listed) = Min(FailuresShown, Cardinality(raised))
        /\ summary[1].more = Cardinality(raised) - Cardinality(Listed)
        /\ \A d \in Listed : \A e \in raised \ Listed : d < e

===========================================================================
